---------------------------- MODULE Spec2Model ----------------------------
(***************************************************************************)
(* Prompt-Math editor front end: schedule factories and curve library      *)
(* (prompt_math_editor.js), the editor's bracket validation, and the lint   *)
(* helper of the CodeMirror mode (prompt_math_mode.js).                     *)
(*                                                                          *)
(* Numbers are exact rationals <<n, d>> with d > 0 in lowest terms; the     *)
(* non-finite doubles are <<1, 0>> (Infinity), <<-1, 0>> (-Infinity) and    *)
(* <<0, 0>> (NaN).  Strings are sequences of one-character strings, so that *)
(* trimming, quote stripping, case folding and number parsing are computed  *)
(* character by character as the code does.                                 *)
(***************************************************************************)
EXTENDS Integers, Sequences, FiniteSets, TLC

VARIABLES
    scheduleMetadata,   \* PromptMathEditor.scheduleMetadata (name -> info)
    call,               \* the latest factory call and the time function it returned
    query,              \* the latest call of that time function
    curveEval,          \* the latest two evaluations of a curve of CURVE_RESOLVERS
    text,               \* the editor's text (editor.getValue())
    lintErrors,         \* what the lint helper returned for text, once it has run
    syntaxValid,        \* what validateExpression returned for text, once it has run
    userConfig,         \* the configuration the editor was constructed with
    defaultConfig,      \* DEFAULT_PROMPT_MATH_CONFIG.scheduleFunctions
    lexer,              \* the mode's tokenizer: its line, position, state and latest token
    loader,             \* the calls of loadPromptMathConfig and window.promptMathConfig
    validationTimeout,  \* PromptMathEditor.validationTimeout: the handle of the latest timer
    timers,             \* the page's pending timers, and the time since the latest change
    shownMessage,       \* what parseExpression showed last (showMessage)
    caches,             \* the _entries of the ExpressionCache instances on one storage key
    localStorage        \* localStorage[storageKey]

vars ==
    <<scheduleMetadata, call, query, curveEval, text, lintErrors, syntaxValid,
      userConfig, defaultConfig, lexer, loader, validationTimeout, timers,
      shownMessage, caches, localStorage>>

schedVars == <<scheduleMetadata, call, query>>
lintVars == <<text, lintErrors, syntaxValid>>
configVars == <<userConfig, defaultConfig>>
timerVars == <<validationTimeout, timers>>
cacheVars == <<caches, localStorage>>
pageVars == <<loader, timerVars, shownMessage, cacheVars>>

-----------------------------------------------------------------------------
(* Exact rational arithmetic standing for the finite doubles.               *)

Abs(n) == IF n < 0 THEN -n ELSE n

RECURSIVE GCD(_, _)
GCD(a, b) == IF b = 0 THEN a ELSE GCD(b, a % b)

Q(n, d) ==
    LET g == GCD(Abs(n), Abs(d))
        s == IF d < 0 THEN -1 ELSE 1
    IN  IF g = 0 THEN <<0, 1>> ELSE <<s * (n \div g), s * (d \div g)>>

Zero == <<0, 1>>
One == <<1, 1>>
NaN == <<0, 0>>
PosInfinity == <<1, 0>>

IsFiniteQ(a) == a[2] # 0

RSub(a, b) ==
    LET g == GCD(a[2], b[2])
    IN  Q(a[1] * (b[2] \div g) - b[1] * (a[2] \div g), (a[2] \div g) * b[2])

RAdd(a, b) == RSub(a, <<-b[1], b[2]>>)

RMul(a, b) ==
    LET g1 == GCD(Abs(a[1]), b[2])
        g2 == GCD(Abs(b[1]), a[2])
    IN  IF a[1] = 0 \/ b[1] = 0 THEN Zero
        ELSE Q((a[1] \div g1) * (b[1] \div g2), (a[2] \div g2) * (b[2] \div g1))

\* a / b for b # 0
RDiv(a, b) == RMul(a, Q(b[2], b[1]))

RLt(a, b) == RSub(a, b)[1] < 0
RLe(a, b) == RSub(a, b)[1] <= 0
RMax(a, b) == IF RLe(a, b) THEN b ELSE a
RMin(a, b) == IF RLe(a, b) THEN a ELSE b

-----------------------------------------------------------------------------
(* Strings: character classes and the String.prototype methods the code     *)
(* uses.                                                                    *)

Whitespace == {" ", "\t", "\n"}
Digits == {"0", "1", "2", "3", "4", "5", "6", "7", "8", "9"}

DigitVal(c) ==
    CASE c = "0" -> 0 [] c = "1" -> 1 [] c = "2" -> 2 [] c = "3" -> 3
      [] c = "4" -> 4 [] c = "5" -> 5 [] c = "6" -> 6 [] c = "7" -> 7
      [] c = "8" -> 8 [] c = "9" -> 9

UpperCase == <<"A", "B", "C", "D", "E", "F", "G", "H", "I", "J", "K", "L", "M",
               "N", "O", "P", "Q", "R", "S", "T", "U", "V", "W", "X", "Y", "Z">>
LowerCase == <<"a", "b", "c", "d", "e", "f", "g", "h", "i", "j", "k", "l", "m",
               "n", "o", "p", "q", "r", "s", "t", "u", "v", "w", "x", "y", "z">>

LowerChar(c) ==
    IF \E i \in 1..26 : UpperCase[i] = c
    THEN LowerCase[CHOOSE i \in 1..26 : UpperCase[i] = c]
    ELSE c

\* String.prototype.toLowerCase
toLowerCase(s) == [i \in 1..Len(s) |-> LowerChar(s[i])]

RECURSIVE TrimStart(_)
TrimStart(s) ==
    IF s # <<>> /\ Head(s) \in Whitespace THEN TrimStart(Tail(s)) ELSE s

RECURSIVE TrimEnd(_)
TrimEnd(s) ==
    IF s # <<>> /\ s[Len(s)] \in Whitespace
    THEN TrimEnd(SubSeq(s, 1, Len(s) - 1))
    ELSE s

\* String.prototype.trim
Trim(s) == TrimEnd(TrimStart(s))

StartsWith(s, c) == s # <<>> /\ s[1] = c
EndsWith(s, c) == s # <<>> /\ s[Len(s)] = c

\* the longest prefix of s made of digits
RECURSIVE DigitPrefix(_)
DigitPrefix(s) ==
    IF s # <<>> /\ Head(s) \in Digits
    THEN <<Head(s)>> \o DigitPrefix(Tail(s))
    ELSE <<>>

RECURSIVE DigitsValue(_)
DigitsValue(ds) ==
    IF ds = <<>> THEN 0
    ELSE 10 * DigitsValue(SubSeq(ds, 1, Len(ds) - 1)) + DigitVal(ds[Len(ds)])

RECURSIVE Pow10(_)
Pow10(k) == IF k = 0 THEN 1 ELSE 10 * Pow10(k - 1)

Drop(s, k) == SubSeq(s, k + 1, Len(s))

\* the exponent part of a decimal literal: rest is what follows the
\* mantissa; an "e" with no digits after it is not part of the literal
ScaleByExponent(mant, eneg, ep) ==
    IF ep = <<>> THEN mant
    ELSE IF eneg THEN RDiv(mant, <<Pow10(DigitsValue(ep)), 1>>)
    ELSE RMul(mant, <<Pow10(DigitsValue(ep)), 1>>)

UnsignedExponent(mant, e1) ==
    ScaleByExponent(mant, StartsWith(e1, "-"),
                    DigitPrefix(IF StartsWith(e1, "-") \/ StartsWith(e1, "+")
                                THEN Tail(e1) ELSE e1))

WithExponent(mant, rest) ==
    IF StartsWith(rest, "e") \/ StartsWith(rest, "E")
    THEN UnsignedExponent(mant, Tail(rest))
    ELSE mant

\* ip and fp are the digits before and after the point
WithFraction(ip, fp, rest) ==
    IF ip = <<>> /\ fp = <<>> THEN NaN
    ELSE WithExponent(Q(DigitsValue(ip) * Pow10(Len(fp)) + DigitsValue(fp),
                        Pow10(Len(fp))),
                      rest)

AfterIntegerPart(ip, rest) ==
    IF StartsWith(rest, ".")
    THEN WithFraction(ip, DigitPrefix(Tail(rest)),
                      Drop(rest, 1 + Len(DigitPrefix(Tail(rest)))))
    ELSE WithFraction(ip, <<>>, rest)

UnsignedLiteral(u) ==
    IF Len(u) >= 8 /\ SubSeq(u, 1, 8) = <<"I", "n", "f", "i", "n", "i", "t", "y">>
    THEN PosInfinity
    ELSE AfterIntegerPart(DigitPrefix(u), Drop(u, Len(DigitPrefix(u))))

Negate(a) == <<-a[1], a[2]>>

SignedLiteral(t) ==
    IF StartsWith(t, "-") THEN Negate(UnsignedLiteral(Tail(t)))
    ELSE UnsignedLiteral(IF StartsWith(t, "+") THEN Tail(t) ELSE t)

\* Number.parseFloat: leading whitespace skipped, then the longest prefix
\* that is a decimal literal (sign, digits, fraction, exponent) or Infinity;
\* NaN when there is none.
parseFloat(s) == SignedLiteral(TrimStart(s))

-----------------------------------------------------------------------------
(* JavaScript values: t is the typeof tag, v the number, s the string.      *)

Undefined == [t |-> "undefined", v |-> Zero, s |-> <<>>]
Num(q) == [t |-> "number", v |-> q, s |-> <<>>]
Str(chars) == [t |-> "string", v |-> Zero, s |-> chars]
True == [t |-> "boolean", v |-> One, s |-> <<>>]
False == [t |-> "boolean", v |-> Zero, s |-> <<>>]

\* the nullish test of ?? and of "=== undefined || === null"
IsNullish(x) == x.t = "undefined"
\* a ?? b
Coalesce(a, b) == IF IsNullish(a) THEN b ELSE a

\* args[index], defaults[name]: undefined when absent
ArgAt(args, index) == IF index \in 1..Len(args) THEN args[index] ELSE Undefined
Lookup(obj, key) == IF key \in DOMAIN obj THEN obj[key] ELSE Undefined

FiniteOr(parsed, fallback) == IF IsFiniteQ(parsed) THEN Num(parsed) ELSE fallback

sanitiseNumber(value, fallback) ==
    IF value.t = "number" /\ IsFiniteQ(value.v) THEN value
    ELSE IF value.t = "string" THEN FiniteOr(parseFloat(Trim(value.s)), fallback)
    ELSE fallback

stripQuotesTrimOnly(value) ==
    IF value.t # "string" THEN value ELSE Str(Trim(value.s))

stripQuotes(value) ==
    IF value.t # "string" THEN value
    ELSE LET trimmed == Trim(value.s)
         IN  IF \/ (StartsWith(trimmed, "\"") /\ EndsWith(trimmed, "\""))
                \/ (StartsWith(trimmed, "'") /\ EndsWith(trimmed, "'"))
             THEN Str(SubSeq(trimmed, 2, Len(trimmed) - 1))
             ELSE Str(trimmed)

clamp01(value) == RMin(One, RMax(Zero, value))

-----------------------------------------------------------------------------
(* CURVE_RESOLVERS                                                          *)

Half == <<1, 2>>

linear(t) == t
smoothWrongCoefficients(t) == RMul(RMul(t, t), RSub(<<2, 1>>, RMul(<<3, 1>>, t)))
smooth(t) == RMul(RMul(t, t), RSub(<<3, 1>>, RMul(<<2, 1>>, t)))
ease_in(t) == RMul(t, t)
ease_out(t) == RSub(One, RMul(RSub(One, t), RSub(One, t)))
ease_in_out(t) ==
    IF RLt(t, Half)
    THEN RMul(<<2, 1>>, RMul(t, t))
    ELSE LET u == RAdd(RMul(<<-2, 1>>, t), <<2, 1>>)
         IN  RSub(One, RDiv(RMul(u, u), <<2, 1>>))
constant(t) == Zero

K_linear == <<"l", "i", "n", "e", "a", "r">>
K_smooth == <<"s", "m", "o", "o", "t", "h">>
K_ease_in == <<"e", "a", "s", "e", "_", "i", "n">>
K_ease_out == <<"e", "a", "s", "e", "_", "o", "u", "t">>
K_ease_in_out == <<"e", "a", "s", "e", "_", "i", "n", "_", "o", "u", "t">>
K_constant == <<"c", "o", "n", "s", "t", "a", "n", "t">>

\* the own keys of the object literal
CurveNames == {K_linear, K_smooth, K_ease_in, K_ease_out, K_ease_in_out, K_constant}

CurveTag(key) ==
    CASE key = K_linear -> "linear"
      [] key = K_smooth -> "smooth"
      [] key = K_ease_in -> "ease_in"
      [] key = K_ease_out -> "ease_out"
      [] key = K_ease_in_out -> "ease_in_out"
      [] key = K_constant -> "constant"

\* CURVE_RESOLVERS[key]: an own key gives its curve; the object literal also
\* inherits the all-lower-case keys of Object.prototype, "constructor" (the
\* function Object) and "__proto__" (the object Object.prototype), both
\* truthy; every other key gives undefined.
CurveProperty(key) ==
    IF key \in CurveNames THEN CurveTag(key)
    ELSE IF key = <<"c", "o", "n", "s", "t", "r", "u", "c", "t", "o", "r">> THEN "Object"
    ELSE IF key = <<"_", "_", "p", "r", "o", "t", "o", "_", "_">> THEN "Object.prototype"
    ELSE "undefined"

\* CURVE_RESOLVERS[curveKey] || CURVE_RESOLVERS.linear
SelectCurve(curveKey) ==
    IF CurveProperty(curveKey) = "undefined" THEN "linear"
    ELSE CurveProperty(curveKey)

IsCallable(curve) == curve # "Object.prototype"

\* curve(normalised); Object(t) is the number t boxed, which the arithmetic
\* and Math.min/Math.max that follow read as t
ApplyCurve(curve, t) ==
    CASE curve = "linear" -> linear(t)
      [] curve = "smooth" -> smooth(t)
      [] curve = "ease_in" -> ease_in(t)
      [] curve = "ease_out" -> ease_out(t)
      [] curve = "ease_in_out" -> ease_in_out(t)
      [] curve = "constant" -> constant(t)
      [] curve = "Object" -> t

-----------------------------------------------------------------------------
(* Schedule metadata: DEFAULT_SCHEDULE_FUNCTIONS and mergePromptMathConfig  *)

S_increase == <<"i", "n", "c", "r", "e", "a", "s", "e">>
S_decrease == <<"d", "e", "c", "r", "e", "a", "s", "e">>

Param(name, type, required) == [name |-> name, type |-> type, required |-> required]

NoDefaults == [n \in {} |-> Undefined]

BuiltinParameters ==
    <<Param("start", "float", TRUE), Param("end", "float", TRUE),
      Param("curve", "string", FALSE)>>

DEFAULT_SCHEDULE_FUNCTIONS ==
    [n \in {"fade_in", "fade_out"} |->
        [direction |-> IF n = "fade_in" THEN Str(S_increase) ELSE Str(S_decrease),
         defaults |-> [k \in {"start", "end"} |->
                          IF k = "start" THEN Num(Zero) ELSE Num(One)],
         parameters |-> BuiltinParameters,
         clamp |-> Undefined]]

\* config.scheduleFunctions of a configuration that supplies schedules of
\* its own: no defaults with required or optional parameters, no parameters
\* at all, a default curve, clamping disabled, direction in another case
CustomScheduleFunctions ==
    [n \in {"ramp", "slide", "hold", "ease"} |->
        CASE n = "ramp" ->
               [direction |-> Undefined, defaults |-> NoDefaults,
                parameters |-> BuiltinParameters, clamp |-> Undefined]
          [] n = "slide" ->
               [direction |-> Str(S_decrease), defaults |-> NoDefaults,
                parameters |-> <<Param("start", "float", FALSE),
                                 Param("end", "float", FALSE),
                                 Param("curve", "string", FALSE)>>,
                clamp |-> True]
          [] n = "hold" ->
               [direction |-> Str(S_increase), defaults |-> NoDefaults,
                parameters |-> <<>>, clamp |-> False]
          [] n = "ease" ->
               [direction |-> Str(<<"D", "e", "c", "r", "e", "a", "s", "e">>),
                defaults |-> [k \in {"start", "end", "curve"} |->
                                 CASE k = "start" -> Num(Q(1, 4))
                                   [] k = "end" -> Num(Q(3, 4))
                                   [] k = "curve" -> Str(K_smooth)],
                parameters |-> <<Param("start", "float", FALSE),
                                 Param("end", "float", FALSE),
                                 Param("curve", "string", FALSE)>>,
                clamp |-> False]]

\* the configurations an editor is constructed with
Configs ==
    { [hasScheduleFunctions |-> FALSE, scheduleFunctions |-> <<>>],
      [hasScheduleFunctions |-> TRUE, scheduleFunctions |-> CustomScheduleFunctions] }

\* a merge that descends into the entries: fields the later entry leaves
\* out keep the earlier entry's values, and the defaults are merged by key
SpreadFieldwise(a, b) ==
    [n \in DOMAIN a \cup DOMAIN b |->
        IF n \notin DOMAIN b THEN a[n]
        ELSE IF n \notin DOMAIN a THEN b[n]
        ELSE [direction |-> Coalesce(b[n].direction, a[n].direction),
              defaults |-> [k \in DOMAIN a[n].defaults \cup DOMAIN b[n].defaults |->
                               IF k \in DOMAIN b[n].defaults THEN b[n].defaults[k]
                               ELSE a[n].defaults[k]],
              parameters |-> b[n].parameters,
              clamp |-> Coalesce(b[n].clamp, a[n].clamp)]]

\* {...a, ...b}
Spread(a, b) ==
    [n \in DOMAIN a \cup DOMAIN b |-> IF n \in DOMAIN b THEN b[n] ELSE a[n]]

\* the scheduleFunctions of mergePromptMathConfig(config)
mergePromptMathConfig(config) ==
    IF config.hasScheduleFunctions
    THEN Spread(DEFAULT_SCHEDULE_FUNCTIONS, config.scheduleFunctions)
    ELSE DEFAULT_SCHEDULE_FUNCTIONS

-----------------------------------------------------------------------------
(* buildScheduleFunctionFactories: the factory of one entry, and the time   *)
(* function it returns.                                                     *)

EPSILON == <<1, 1000000>>

\* (info?.direction || 'increase').toLowerCase()
Direction(info) ==
    IF info.direction.t = "string" /\ info.direction.s # <<>>
    THEN toLowerCase(info.direction.s)
    ELSE S_increase

\* info?.clamp !== false
ClampOutput(info) == info.clamp # False

\* the body of parameters.forEach for one parameter
ResolveParam(param, raw, defaults) ==
    IF param.type = "float"
    THEN LET value == sanitiseNumber(raw, Lookup(defaults, param.name))
         IN  IF IsNullish(value) /\ param.required
             THEN Coalesce(Lookup(defaults, param.name), Num(Zero))
             ELSE value
    ELSE IF param.type = "string"
    THEN LET candidate == IF raw # Undefined THEN raw
                          ELSE Lookup(defaults, param.name)
         IN  stripQuotes(Coalesce(candidate, Str(<<>>)))
    ELSE Coalesce(raw, Lookup(defaults, param.name))

\* resolved, after parameters.forEach: a later parameter of the same name
\* overwrites an earlier one
LastIndex(ps, n) ==
    CHOOSE i \in 1..Len(ps) :
        /\ ps[i].name = n
        /\ \A j \in 1..Len(ps) : ps[j].name = n => j <= i

Resolved(info, args) ==
    [n \in {info.parameters[i].name : i \in 1..Len(info.parameters)} |->
        ResolveParam(info.parameters[LastIndex(info.parameters, n)],
                     ArgAt(args, LastIndex(info.parameters, n)),
                     info.defaults)]

\* sanitiseNumber(resolved.start, defaults.start ?? 0.0) ?? 0.0
ResolveStart(resolved, defaults) ==
    Coalesce(sanitiseNumber(Lookup(resolved, "start"),
                            Coalesce(Lookup(defaults, "start"), Num(Zero))),
             Num(Zero))

\* sanitiseNumber(resolved.end, defaults.end ?? 1.0) ?? 1.0
ResolveEnd(resolved, defaults) ==
    Coalesce(sanitiseNumber(Lookup(resolved, "end"),
                            Coalesce(Lookup(defaults, "end"), Num(One))),
             Num(One))

SpanNoFloor(start, end) == RSub(end, start)

\* Math.max(end - start, 1e-6)
Span(start, end) == RMax(RSub(end, start), EPSILON)

\* stripQuotes(resolved.curve ?? defaults.curve ?? 'linear'), the value
\* toLowerCase is then called on
CurveCandidate(resolved, defaults) ==
    stripQuotes(Coalesce(Lookup(resolved, "curve"),
                         Coalesce(Lookup(defaults, "curve"), Str(K_linear))))

\* what the returned time function closes over; threw is the TypeError of
\* calling toLowerCase on a candidate that is not a string
Binding(info, start, end, candidate) ==
    [threw |-> candidate.t # "string",
     start |-> start,
     end |-> end,
     span |-> Span(start, end),
     curveKey |-> toLowerCase(candidate.s),
     curve |-> SelectCurve(toLowerCase(candidate.s)),
     direction |-> Direction(info),
     clampOutput |-> ClampOutput(info)]

FactoryOf(info, resolved) ==
    Binding(info,
            ResolveStart(resolved, info.defaults).v,
            ResolveEnd(resolved, info.defaults).v,
            CurveCandidate(resolved, info.defaults))

\* factories[name](...args) for the entry info of the metadata
Factory(info, args) == FactoryOf(info, Resolved(info, args))

Returned(w) == [threw |-> FALSE, w |-> w]
Threw == [threw |-> TRUE, w |-> Zero]

RawWeightEndFirst(b, time) ==
    IF RLe(b.end, time) THEN One
    ELSE IF RLe(time, b.start) THEN Zero
    ELSE ApplyCurve(b.curve, clamp01(RDiv(RSub(time, b.start), b.span)))

\* time <= start: 0; time >= end: 1; otherwise curve(clamp01((time - start) / span))
RawWeight(b, time) ==
    IF RLe(time, b.start) THEN Zero
    ELSE IF RLe(b.end, time) THEN One
    ELSE ApplyCurve(b.curve, clamp01(RDiv(RSub(time, b.start), b.span)))

\* the curve is called, and is not a function
CurveCallFails(b, time) ==
    ~RLe(time, b.start) /\ ~RLe(b.end, time) /\ ~IsCallable(b.curve)

DirectedNoInversion(direction, weight) == weight

\* if (direction === 'decrease') weight = 1 - weight
Directed(direction, weight) ==
    IF direction = S_decrease THEN RSub(One, weight) ELSE weight

\* if (clampOutput) weight = clamp01(weight)
Clamped(clampOutput, weight) == IF clampOutput THEN clamp01(weight) ELSE weight

InvertedBelowZeroAfterClamp(b, raw) ==
    IF b.direction = S_decrease
    THEN RSub(Clamped(b.clampOutput, raw), One)
    ELSE Clamped(b.clampOutput, raw)

\* the weight for a raw weight: inversion, then the clamp
Weight(b, raw) == Clamped(b.clampOutput, Directed(b.direction, raw))

\* the time function a factory returns, called with time: Threw is the
\* TypeError of calling a curve that is not a function
TimeFunction(b, time) ==
    IF CurveCallFails(b, time) THEN Threw
    ELSE Returned(Weight(b, RawWeight(b, time)))

-----------------------------------------------------------------------------
(* PromptMathEditor.parseScheduleParams                                     *)

\* the index of the first c in s at or after position i, 0 when there is none
RECURSIVE IndexFrom(_, _, _)
IndexFrom(s, c, i) ==
    IF i > Len(s) THEN 0
    ELSE IF s[i] = c THEN i
    ELSE IndexFrom(s, c, i + 1)

\* String.prototype.split(',')
RECURSIVE SplitComma(_)
SplitComma(s) ==
    LET i == IndexFrom(s, ",", 1)
    IN  IF i = 0 THEN <<s>>
        ELSE <<SubSeq(s, 1, i - 1)>> \o SplitComma(Drop(s, i))

\* Number.isFinite(number) ? number : trimmed
NumberOrText(trimmed, number) ==
    IF IsFiniteQ(number) THEN Num(number) ELSE Str(trimmed)

ParsePart(part) == NumberOrText(Trim(part), parseFloat(Trim(part)))

\* paramStr is what stands between the first "(" and the next ")"
ParseParamStr(paramStr) ==
    IF Trim(paramStr) = <<>> THEN <<>>
    ELSE [i \in 1..Len(SplitComma(paramStr)) |-> ParsePart(SplitComma(paramStr)[i])]

ParseBetween(scheduleText, open, close) ==
    IF open = 0 \/ close = 0 THEN <<>>
    ELSE ParseParamStr(SubSeq(scheduleText, open + 1, close - 1))

ParseFromOpen(scheduleText, open) ==
    IF open = 0 THEN <<>>
    ELSE ParseBetween(scheduleText, open, IndexFrom(scheduleText, ")", open + 1))

parseScheduleParams(scheduleText) ==
    ParseFromOpen(scheduleText, IndexFrom(scheduleText, "(", 1))

-----------------------------------------------------------------------------
(* The schedule part of the editor as a state machine: an editor is         *)
(* constructed with a configuration, schedule factories are called with     *)
(* positional arguments (directly, or by updateSchedulePreview with the     *)
(* arguments parsed from the expression text), and the time function a call *)
(* returned is queried.                                                     *)

\* positional arguments: finite and non-finite numbers, numeric and
\* malformed strings, undefined; curve names quoted, in another case,
\* padded, unknown, empty, inherited from Object.prototype, or a number
StartArgs ==
    { Num(Zero), Num(Half), Num(One), Num(NaN),
      Str(<<"0", ".", "2", "5">>), Str(<<"a", "b", "c">>), Undefined }

EndArgs ==
    { Num(Half), Num(One), Num(Q(1, 2000000)), Num(PosInfinity),
      Str(<<"a", "b", "c">>), Undefined }

CurveArgs ==
    { Str(<<"\"", "e", "a", "s", "e", "_", "o", "u", "t", "\"">>),
      Str(<<"E", "A", "S", "E", "_", "I", "N">>),
      Str(<<"'", "e", "a", "s", "e", "_", "i", "n", "_", "o", "u", "t", "'">>),
      Str(<<" ", "S", "m", "o", "o", "t", "h", " ">>),
      Str(K_constant),
      Str(<<"_", "_", "p", "r", "o", "t", "o", "_", "_">>),
      Str(<<"c", "o", "n", "s", "t", "r", "u", "c", "t", "o", "r">>),
      Str(<<"n", "o", "p", "e">>),
      Str(<<>>),
      Num(<<2, 1>>),
      Undefined }

ArgLists ==
    {<<>>}
    \cup {<<a>> : a \in StartArgs}
    \cup {<<a, b>> : a \in StartArgs, b \in EndArgs}
    \cup {<<a, b, c>> : a \in StartArgs, b \in EndArgs, c \in CurveArgs}

\* match[1] and match[0] of the schedule calls updateSchedulePreview finds
\* in the expression text
ScheduleMatches ==
    { [name |-> "fade_out",
       text |-> <<"@", " ", "f", "a", "d", "e", "_", "o", "u", "t", "(", "0", ".", "0",
                  ",", " ", "1", ".", "0", ",", " ", "\"", "e", "a", "s", "e", "_", "o",
                  "u", "t", "\"", ")">>],
      [name |-> "fade_in",
       text |-> <<"@", " ", "f", "a", "d", "e", "_", "i", "n", "(", "0", ".", "2", ",",
                  " ", "0", ".", "8", ")">>],
      [name |-> "fade_in",
       text |-> <<"@", " ", "f", "a", "d", "e", "_", "i", "n", "(", ")">>],
      [name |-> "fade_out",
       text |-> <<"@", "f", "a", "d", "e", "_", "o", "u", "t", "(", "0", ".", "5", ",",
                  " ", ",", " ", "s", "m", "o", "o", "t", "h", ")">>],
      [name |-> "fade_in",
       text |-> <<"@", " ", "f", "a", "d", "e", "_", "i", "n", "(", "1", "e", "-", "1",
                  ",", " ", ".", "5", "x", ",", " ", "3", ")">>] }

\* query times: around and inside the unit timeline, the window's own
\* boundaries, and a time below the epsilon for a window shorter than it
QueryTimes(b) ==
    {Q(-1, 4), Zero, Q(1, 4), Half, Q(3, 4), One, Q(5, 4)} \cup {b.start, b.end}
    \cup (IF RLt(RSub(b.end, b.start), EPSILON) THEN {Q(1, 4000000)} ELSE {})

NoBinding ==
    [threw |-> TRUE, start |-> Zero, end |-> One, span |-> One, curveKey |-> <<>>,
     curve |-> "linear", direction |-> S_increase, clampOutput |-> TRUE]
NoCall == [made |-> FALSE, name |-> "", args |-> <<>>, text |-> <<>>, b |-> NoBinding]
MadeCall(name, args, scheduleText) ==
    [made |-> TRUE, name |-> name, args |-> args, text |-> scheduleText,
     b |-> Factory(scheduleMetadata[name], args)]
NoQuery == [made |-> FALSE, tau |-> Zero, result |-> Returned(Zero)]
NoEval == [made |-> FALSE, name |-> "linear", t1 |-> Zero, v1 |-> Zero,
           t2 |-> Zero, v2 |-> Zero]
\* no lint pass and no validation has run on the present text; the status
\* line starts as updateSyntaxStatus(true, 'Ready')
NoLint == [ran |-> FALSE, errors |-> <<>>]
NoVerdict == [ran |-> FALSE, valid |-> TRUE, message |-> "Ready"]

\* the constructor: this.scheduleMetadata = mergePromptMathConfig(config)
SchedInit ==
    /\ userConfig \in Configs
    /\ defaultConfig = DEFAULT_SCHEDULE_FUNCTIONS
    /\ scheduleMetadata = mergePromptMathConfig(userConfig)
    /\ call = NoCall
    /\ query = NoQuery

\* State(): the tokenizer state of startState
State ==
    [inDoubleExpr |-> FALSE, inToken |-> FALSE, inSchedule |-> FALSE,
     bracketDepth |-> 0, parenDepth |-> 0, braceDepth |-> 0, lastToken |-> "null",
     expectingSchedule |-> FALSE]

\* no line tokenised yet: pos characters of the line are consumed, the
\* latest call of token started at start with the state before and returned
\* style; calls counts the calls on the line, lineNo the lines begun
NoLexer ==
    [line |-> <<>>, pos |-> 0, start |-> 0, state |-> State, before |-> State,
     style |-> "null", calls |-> 0, lineNo |-> 0]

CurveIdle == curveEval = NoEval
LexIdle == lexer = NoLexer
LintIdle == text = <<>> /\ lintErrors = NoLint /\ syntaxValid = NoVerdict

\* window.promptMathConfig before anything is stored in it
NoStored == [t |-> "undefined", scheduleFunctions |-> <<>>]

\* no call of loadPromptMathConfig yet: hasFetch says whether the page has
\* a fetch function; of the latest call, hadStored is
\* window.promptMathConfig when it began, sent the number of requests it
\* sent, source where the configuration it returned came from; requests are
\* the requests sent so far in order, api and file what each yielded;
\* completed counts the calls that returned
NoLoader ==
    [pc |-> "idle", hasFetch |-> TRUE, window |-> NoStored, hadStored |-> NoStored,
     requests |-> <<>>,
     sent |-> 0, api |-> "none", file |-> "none", payload |-> NoStored,
     source |-> "none",
     returned |-> NoStored, rejected |-> FALSE, completed |-> 0]

\* no timer set; of the timers, pending are the handles set and not yet run
\* or cleared with the time left to each, sinceChange is the time since the
\* latest change event and gap the time between that change and the one
\* before, runs counts the validations timers have run since the present
\* burst of changes began and ranAfter is the time after the latest change
\* at which the latest of them ran; times are in milliseconds
NoTimers == [pending |-> {}, sinceChange |-> 0, gap |-> 0, runs |-> 0, ranAfter |-> 0]

NoMessage == [type |-> "none", rebuilt |-> FALSE]

LoadIdle == loader = NoLoader
TimerIdle == validationTimeout = 0 /\ timers = NoTimers
MessageIdle == shownMessage = NoMessage
\* localStorage.getItem(storageKey) === null
NoItem == [kind |-> "null", entries |-> <<>>]
\* no ExpressionCache constructed
CacheIdle == caches = <<>> /\ localStorage = NoItem
PageIdle == LoadIdle /\ TimerIdle /\ MessageIdle /\ CacheIdle

\* SchedulePreview.clearSchedules, with which updateSchedulePreview starts:
\* the time function held is dropped
ClearSchedules ==
    /\ call.made
    /\ call' = NoCall
    /\ query' = NoQuery
    /\ UNCHANGED <<scheduleMetadata, curveEval, lintVars, configVars, lexer, pageVars>>

\* factories[name](...args); one time function is held at a time
CallFactory(name, args) ==
    /\ ~call.made
    /\ name \in DOMAIN scheduleMetadata
    /\ call' = MadeCall(name, args, <<>>)
    /\ query' = NoQuery
    /\ UNCHANGED <<scheduleMetadata, curveEval, lintVars, configVars, lexer, pageVars>>

\* one match of updateSchedulePreview: no factory of that name, return;
\* otherwise factory(...this.parseScheduleParams(match[0])) inside try/catch
PreviewSchedule(m) ==
    /\ ~call.made
    /\ m.name \in DOMAIN scheduleMetadata
    /\ call' = MadeCall(m.name, parseScheduleParams(m.text), m.text)
    /\ query' = NoQuery
    /\ UNCHANGED <<scheduleMetadata, curveEval, lintVars, configVars, lexer, pageVars>>

\* a time function that resolves its entry in the registry again at every
\* call instead of using the values resolved when it was created
QueryTimeFromRegistry(tau) ==
    /\ call.made
    /\ ~call.b.threw
    /\ query' = [made |-> TRUE, tau |-> tau,
                 result |-> IF call.name \in DOMAIN scheduleMetadata
                            THEN TimeFunction(Factory(scheduleMetadata[call.name],
                                                      call.args), tau)
                            ELSE Threw]
    /\ UNCHANGED <<scheduleMetadata, call, curveEval, lintVars, configVars, lexer, pageVars>>

\* scheduleFunc(time), as SchedulePreview.render and any renderer call it
QueryTime(tau) ==
    /\ call.made
    /\ ~call.b.threw
    /\ query' = [made |-> TRUE, tau |-> tau, result |-> TimeFunction(call.b, tau)]
    /\ UNCHANGED <<scheduleMetadata, call, curveEval, lintVars, configVars, lexer, pageVars>>

Init == SchedInit /\ CurveIdle /\ LintIdle /\ LexIdle /\ PageIdle

Next ==
    \/ \E name \in DOMAIN scheduleMetadata, args \in ArgLists : CallFactory(name, args)
    \/ \E m \in ScheduleMatches : PreviewSchedule(m)
    \/ \E tau \in QueryTimes(call.b) : QueryTime(tau)
    \/ ClearSchedules

Spec == Init /\ [][Next]_vars

-----------------------------------------------------------------------------
(* Properties of the schedule factories and their time functions.           *)

Info == scheduleMetadata[call.name]
Answered == call.made /\ query.made /\ ~query.result.threw
Increasing == call.b.direction # S_decrease

\* the argument given for the parameter pname: undefined when the parameter
\* is not declared or the argument list is too short
ArgFor(info, args, pname) ==
    IF \E i \in 1..Len(info.parameters) : info.parameters[i].name = pname
    THEN ArgAt(args, LastIndex(info.parameters, pname))
    ELSE Undefined

WeightAtStartIsOff ==
    query.tau = call.b.start =>
        /\ ~query.result.threw
        /\ query.result.w = IF Increasing THEN Zero ELSE One

WeightAtEndIsOn ==
    query.tau = call.b.end =>
        /\ ~query.result.threw
        /\ query.result.w = IF Increasing THEN One ELSE Zero

\* C1, as claimed: for every resolved start and end, also start = end and
\* start > end, the weight at tau = start is 0 and the weight at tau = end is
\* 1 for an increasing schedule, and 1 and 0 for a decreasing one.
C1_BoundaryLawAnyWindow ==
    (call.made /\ query.made) => (WeightAtStartIsOff /\ WeightAtEndIsOn)

\* C1, amended: the weight at tau = start is 0 (increase) or 1 (decrease)
\* for every resolved start and end; the weight at tau = end is 1 (increase)
\* or 0 (decrease) when start < end.
C1_BoundaryLaw ==
    (call.made /\ query.made) =>
        /\ WeightAtStartIsOff
        /\ RLt(call.b.start, call.b.end) => WeightAtEndIsOn

C1_Witness ==
    /\ call.made /\ query.made
    /\ RLt(call.b.start, call.b.end)
    /\ query.tau = call.b.end
    /\ ~Increasing
    /\ call.b.curve = "ease_out"

\* C2: a factory call returns a time function without throwing, whatever
\* the positional arguments are.
C2_ResolutionNeverFails == call.made => ~call.b.threw

\* C3: with no start (end) argument and no declared default for it, the
\* resolved start is 0.0 (the resolved end is 1.0), whether or not the
\* parameter is required or declared.
C3_StartEndFallback ==
    (call.made /\ ~call.b.threw) =>
        /\ (ArgFor(Info, call.args, "start") = Undefined
            /\ "start" \notin DOMAIN Info.defaults) => call.b.start = Zero
        /\ (ArgFor(Info, call.args, "end") = Undefined
            /\ "end" \notin DOMAIN Info.defaults) => call.b.end = One

\* C4: when clamping is not disabled, every weight the time function
\* returns lies in [0, 1].
C4_ClampedWeightInUnitInterval ==
    (Answered /\ call.b.clampOutput) =>
        RLe(Zero, query.result.w) /\ RLe(query.result.w, One)

C4_Witness ==
    /\ Answered /\ call.b.clampOutput
    /\ ~Increasing
    /\ call.b.curve = "ease_in"
    /\ RLt(Zero, query.result.w) /\ RLt(query.result.w, One)

\* the entry that differs from info in its direction only
Twin(info) ==
    [info EXCEPT !.direction =
        IF Direction(info) = S_decrease THEN Str(S_increase) ELSE Str(S_decrease)]

\* C5: for every argument list and every tau, the weight of the schedule and
\* the weight of the otherwise identical schedule of the other direction add
\* up to 1; fade_in and fade_out are such a pair.
C5_DirectionInversion ==
    Answered =>
        /\ TimeFunction(Factory(Twin(Info), call.args), query.tau)
               = Returned(RSub(One, query.result.w))
        /\ call.name = "fade_in" =>
               RAdd(TimeFunction(Factory(scheduleMetadata["fade_out"], call.args),
                                 query.tau).w,
                    query.result.w) = One

C5_Witness ==
    /\ Answered
    /\ call.name = "fade_in"
    /\ call.b.curve = "ease_out"
    /\ query.result.w = Q(3, 4)

C7_UnknownCurveSelectsLinear ==
    (call.made /\ ~call.b.threw) =>
        /\ call.b.curveKey \in CurveNames => call.b.curve = CurveTag(call.b.curveKey)
        /\ call.b.curveKey \notin CurveNames => call.b.curve = "linear"

FadeOutEaseOutText ==
    <<"@", " ", "f", "a", "d", "e", "_", "o", "u", "t", "(", "0", ".", "0",
      ",", " ", "1", ".", "0", ",", " ", "\"", "e", "a", "s", "e", "_", "o",
      "u", "t", "\"", ")">>

\* C8: fade_out(0.0, 1.0, "ease_out"), its arguments parsed from the
\* expression text, gives the weight 0.25 at tau = 0.5.
C8_FadeOutEaseOutScenario ==
    (call.made /\ call.name = "fade_out" /\ call.text = FadeOutEaseOutText) =>
        /\ call.args = <<Num(Zero), Num(One),
                         Str(<<"\"", "e", "a", "s", "e", "_", "o", "u", "t", "\"">>)>>
        /\ ~call.b.threw
        /\ (query.made /\ query.tau = Half) => query.result = Returned(Q(1, 4))

C8_Witness ==
    /\ call.made /\ call.name = "fade_out" /\ call.text = FadeOutEaseOutText
    /\ query.made /\ query.tau = Half

-----------------------------------------------------------------------------
(* The curve library on its own: a curve of CURVE_RESOLVERS is evaluated at *)
(* points of [0, 1], as the time function does with the clamped progress,   *)
(* and the two latest evaluations of one curve are kept.                    *)

CurveGrid == 8

SchedIdle ==
    /\ userConfig = [hasScheduleFunctions |-> FALSE, scheduleFunctions |-> <<>>]
    /\ defaultConfig = DEFAULT_SCHEDULE_FUNCTIONS
    /\ scheduleMetadata = DEFAULT_SCHEDULE_FUNCTIONS
    /\ call = NoCall
    /\ query = NoQuery

\* curve(normalised)
EvalCurve(key, t) ==
    /\ curveEval' =
          [made |-> TRUE, name |-> CurveTag(key),
           t1 |-> IF curveEval.made /\ curveEval.name = CurveTag(key)
                  THEN curveEval.t2 ELSE t,
           v1 |-> IF curveEval.made /\ curveEval.name = CurveTag(key)
                  THEN curveEval.v2 ELSE ApplyCurve(CurveTag(key), t),
           t2 |-> t,
           v2 |-> ApplyCurve(CurveTag(key), t)]
    /\ UNCHANGED <<schedVars, lintVars, configVars, lexer, pageVars>>

CurveInit == SchedIdle /\ CurveIdle /\ LintIdle /\ LexIdle /\ PageIdle

CurveNext ==
    \E key \in CurveNames, t \in {Q(k, CurveGrid) : k \in 0..CurveGrid} : EvalCurve(key, t)

CurveSpec == CurveInit /\ [][CurveNext]_vars

\* C9: linear, smooth, ease_in and ease_out are non-decreasing on [0, 1] and
\* map [0, 1] into [0, 1]; constant is 0 everywhere.
C9_CurveMonotonicity ==
    curveEval.made =>
        /\ curveEval.name \in {"linear", "smooth", "ease_in", "ease_out"} =>
              /\ RLe(curveEval.t1, curveEval.t2) => RLe(curveEval.v1, curveEval.v2)
              /\ RLe(Zero, curveEval.v2) /\ RLe(curveEval.v2, One)
        /\ curveEval.name = "constant" => curveEval.v2 = Zero

C9_Witness ==
    /\ curveEval.made
    /\ curveEval.name = "smooth"
    /\ RLt(curveEval.t1, curveEval.t2)
    /\ RLt(curveEval.v1, curveEval.v2)
    /\ RLt(Half, curveEval.t1)

-----------------------------------------------------------------------------
(* The editor's text and its two bracket validators: the lint helper of the *)
(* promptmath mode, which CodeMirror runs on the document after a change,   *)
(* and PromptMathEditor.validateExpression, run by the change timer, the    *)
(* validate button and parseExpression.  Columns and line numbers are       *)
(* counted from 0, as CodeMirror.Pos counts them.                           *)

Openers == {"[", "(", "{"}
Closers == {"]", ")", "}"}

\* bracketPairs[char], pairs[char]
bracketPairs(c) ==
    CASE c = "[" -> "]"
      [] c = "(" -> ")"
      [] c = "{" -> "}"

\* [a-zA-Z_] and \w
IdentStart ==
    {UpperCase[k] : k \in 1..26} \cup {LowerCase[k] : k \in 1..26} \cup {"_"}
WordChars == IdentStart \cup Digits

\* text.split('\n')
RECURSIVE SplitLines(_)
SplitLines(s) ==
    LET i == IndexFrom(s, "\n", 1)
    IN  IF i = 0 THEN <<s>>
        ELSE <<SubSeq(s, 1, i - 1)>> \o SplitLines(Drop(s, i))

\* the first index from j on whose character is outside the class
RECURSIVE SkipWhile(_, _, _)
SkipWhile(s, j, class) ==
    IF j <= Len(s) /\ s[j] \in class THEN SkipWhile(s, j + 1, class) ELSE j

\* String.prototype.indexOf from the character j on, -1 when absent
RECURSIVE IndexOfFrom(_, _, _)
IndexOfFrom(s, sub, j) ==
    IF j + Len(sub) - 1 > Len(s) THEN -1
    ELSE IF SubSeq(s, j, j + Len(sub) - 1) = sub THEN j - 1
    ELSE IndexOfFrom(s, sub, j + 1)

\* { message, severity, from: Pos(i, from), to: Pos(i, to) }; the characters
\* or the name the message quotes are the detail
Finding(message, detail, severity, i, from, to) ==
    [message |-> message, detail |-> detail, severity |-> severity,
     line |-> i, from |-> from, to |-> to]

\* for (const bracket of bracketStack) errors.push(...)
UnclosedFindings(i, bracketStack) ==
    [k \in 1..Len(bracketStack) |->
        Finding("Unclosed bracket", <<bracketStack[k].char>>, "error", i,
                bracketStack[k].pos, bracketStack[k].pos + 1)]

Pop(stack) == SubSeq(stack, 1, Len(stack) - 1)

\* the scan of one line from its character j + 1 (column j) on
RECURSIVE BracketFindings(_, _, _, _, _)
BracketFindings(line, i, j, bracketStack, errors) ==
    IF j >= Len(line) THEN errors \o UnclosedFindings(i, bracketStack)
    ELSE IF line[j + 1] \in Openers
    THEN BracketFindings(line, i, j + 1,
             Append(bracketStack, [char |-> line[j + 1], pos |-> j,
                                   expected |-> bracketPairs(line[j + 1])]),
             errors)
    ELSE IF line[j + 1] \notin Closers
    THEN BracketFindings(line, i, j + 1, bracketStack, errors)
    ELSE IF bracketStack = <<>>
    THEN BracketFindings(line, i, j + 1, bracketStack,
             Append(errors, Finding("Unmatched closing bracket", <<line[j + 1]>>, "error",
                                    i, j, j + 1)))
    ELSE IF bracketStack[Len(bracketStack)].expected # line[j + 1]
    THEN BracketFindings(line, i, j + 1, Pop(bracketStack),
             Append(errors, Finding("Expected but found",
                                    <<bracketStack[Len(bracketStack)].expected,
                                      line[j + 1]>>,
                                    "error", i, j, j + 1)))
    ELSE BracketFindings(line, i, j + 1, Pop(bracketStack), errors)

\* line.match(/\[\[|\]\]/g).length: the matches do not overlap
RECURSIVE CountDoubleBrackets(_, _)
CountDoubleBrackets(line, j) ==
    IF j >= Len(line) THEN 0
    ELSE IF line[j] = line[j + 1] /\ line[j] \in {"[", "]"}
    THEN 1 + CountDoubleBrackets(line, j + 2)
    ELSE CountDoubleBrackets(line, j + 1)

DoubleBracketFindingsAnyCount(line, i) ==
    IF CountDoubleBrackets(line, 1) # 0
    THEN <<[message |-> "Unmatched double brackets [[ ]]", detail |-> <<>>,
            severity |-> "error", line |-> i, from |-> 0, to |-> Len(line)]>>
    ELSE <<>>

DoubleBracketFindings(line, i) ==
    IF CountDoubleBrackets(line, 1) % 2 # 0
    THEN <<Finding("Unmatched double brackets [[ ]]", <<>>, "error", i, 0, Len(line))>>
    ELSE <<>>

schedFuncs ==
    { <<"f", "a", "d", "e", "_", "i", "n">>,
      <<"f", "a", "d", "e", "_", "o", "u", "t">>,
      <<"e", "m", "p", "h", "a", "s", "i", "s">>,
      <<"s", "c", "h", "e", "d", "u", "l", "e">>,
      <<"b", "e", "l", "l">>,
      <<"p", "u", "l", "s", "e">>,
      <<"s", "t", "e", "p">>,
      <<"c", "o", "n", "s", "t", "a", "n", "t">>,
      <<"l", "i", "n", "e", "a", "r">>,
      <<"s", "m", "o", "o", "t", "h">> }

NoMark == [found |-> FALSE, at |-> 0, name |-> 0, end |-> 0]

\* /@\s*([a-zA-Z_][a-zA-Z0-9_]*)/ at the character j: name is where the
\* identifier has to start
MarkAt(line, j, name) ==
    IF line[j] = "@" /\ name <= Len(line) /\ line[name] \in IdentStart
    THEN [found |-> TRUE, at |-> j, name |-> name,
          end |-> SkipWhile(line, name, WordChars) - 1]
    ELSE NoMark

\* line.match(/@\s*([a-zA-Z_][a-zA-Z0-9_]*)/g): the matches from left to
\* right, each search starting where the match before ended
RECURSIVE ScheduleMarks(_, _)
MarksAfter(line, j, m) ==
    IF m.found THEN <<SubSeq(line, m.at, m.end)>> \o ScheduleMarks(line, m.end + 1)
    ELSE ScheduleMarks(line, j + 1)

ScheduleMarks(line, j) ==
    IF j > Len(line) THEN <<>>
    ELSE MarksAfter(line, j, MarkAt(line, j, SkipWhile(line, j + 1, Whitespace)))

\* funcName = match.replace('@', '').trim(); pos = line.indexOf(match)
UnknownSchedule(line, i, match, funcName, pos) ==
    IF funcName \in schedFuncs THEN <<>>
    ELSE <<Finding("Unknown schedule function", funcName, "warning", i, pos, pos + Len(match))>>

RECURSIVE ScheduleFindings(_, _, _, _)
ScheduleFindings(line, i, scheduleMatches, k) ==
    IF k > Len(scheduleMatches) THEN <<>>
    ELSE UnknownSchedule(line, i, scheduleMatches[k], Trim(Drop(scheduleMatches[k], 1)),
                         IndexOfFrom(line, scheduleMatches[k], 1))
         \o ScheduleFindings(line, i, scheduleMatches, k + 1)

\* the body of the loop over the lines, for line i
LineFindings(line, i) ==
    BracketFindings(line, i, 0, <<>>, <<>>)
    \o DoubleBracketFindings(line, i)
    \o ScheduleFindings(line, i, ScheduleMarks(line, 1), 1)

RECURSIVE LintLines(_, _)
LintLines(lines, i) ==
    IF i >= Len(lines) THEN <<>>
    ELSE LineFindings(lines[i + 1], i) \o LintLines(lines, i + 1)

\* the lint helper: the findings of every line, in the order of the lines
lint(t) == LintLines(SplitLines(t), 0)

Verdict(valid, message) == [ran |-> TRUE, valid |-> valid, message |-> message]

\* the loop of validateExpression over the whole text, from its character j
\* on; stack.pop() of an empty stack is undefined, and pairs[undefined] is
\* undefined, which no closing bracket equals
RECURSIVE ValidateFrom(_, _, _)
ValidateFrom(t, j, stack) ==
    IF j > Len(t)
    THEN IF stack # <<>> THEN Verdict(FALSE, "Unclosed bracket detected")
         ELSE Verdict(TRUE, "Syntax OK")
    ELSE IF t[j] \in Openers THEN ValidateFrom(t, j + 1, Append(stack, t[j]))
    ELSE IF t[j] \notin Closers THEN ValidateFrom(t, j + 1, stack)
    ELSE IF stack = <<>> \/ bracketPairs(stack[Len(stack)]) # t[j]
    THEN Verdict(FALSE, "Mismatched brackets")
    ELSE ValidateFrom(t, j + 1, Pop(stack))

\* the key of this.scheduleFactories a matched name is; the names inherited
\* from Object.prototype are not among the texts the model enters
ScheduleKey(name) ==
    CASE name = <<"f", "a", "d", "e", "_", "i", "n">> -> "fade_in"
      [] name = <<"f", "a", "d", "e", "_", "o", "u", "t">> -> "fade_out"
      [] name = <<"r", "a", "m", "p">> -> "ramp"
      [] name = <<"s", "l", "i", "d", "e">> -> "slide"
      [] name = <<"h", "o", "l", "d">> -> "hold"
      [] name = <<"e", "a", "s", "e">> -> "ease"
      [] OTHER -> ""

NoMatch == [found |-> FALSE, name |-> <<>>, text |-> <<>>, end |-> 0]

\* /@\s*(\w+)\s*\([^)]*\)/ at an "@": the name, the "(" and the next ")"
CallClosed(t, at, name, nameEnd, close) ==
    IF close = 0 THEN NoMatch
    ELSE [found |-> TRUE, name |-> SubSeq(t, name, nameEnd),
          text |-> SubSeq(t, at, close), end |-> close]

CallOpened(t, at, name, nameEnd, open) ==
    IF open <= Len(t) /\ t[open] = "("
    THEN CallClosed(t, at, name, nameEnd, IndexFrom(t, ")", open + 1))
    ELSE NoMatch

CallNamed(t, at, name, after) ==
    IF after > name
    THEN CallOpened(t, at, name, after - 1, SkipWhile(t, after, Whitespace))
    ELSE NoMatch

CallAt(t, j) ==
    IF t[j] = "@"
    THEN CallNamed(t, j, SkipWhile(t, j + 1, Whitespace),
                   SkipWhile(t, SkipWhile(t, j + 1, Whitespace), WordChars))
    ELSE NoMatch

\* the first match of text.matchAll(regex) from j on that has a factory
RECURSIVE FirstKnownCall(_, _)
KnownCallAfter(t, j, m) ==
    IF ~m.found THEN FirstKnownCall(t, j + 1)
    ELSE IF ScheduleKey(m.name) \in DOMAIN scheduleMetadata THEN m
    ELSE FirstKnownCall(t, m.end + 1)

FirstKnownCall(t, j) ==
    IF j > Len(t) THEN NoMatch ELSE KnownCallAfter(t, j, CallAt(t, j))

PreviewOf(m) ==
    IF m.found THEN MadeCall(ScheduleKey(m.name), parseScheduleParams(m.text), m.text)
    ELSE NoCall

\* updateSchedulePreview: clearSchedules, then the factory of a matched name
\* is called with the parsed arguments; the texts entered hold at most one
\* call of a schedule that has a factory
updateSchedulePreview(t) == PreviewOf(FirstKnownCall(t, 1))

\* the texts entered: characters typed one at a time, up to MaxTextLen, and
\* the codes of templates, from DEFAULT_TEMPLATES and from a configuration
MaxTextLen == 3
Keys == {"(", ")", "[", "]", "{", "}", "\n", " ", "@", "a"}

DefaultTemplateCodes ==
    { <<"[", "[", " ", "[", "k", "i", "n", "g", "]", " ", "-", " ", "[", "m",
          "a", "n", "]", " ", "+", " ", "[", "w", "o", "m", "a", "n", "]", " ",
          "]", "]">>,
      <<"[", "[", " ", "[", "d", "e", "t", "a", "i", "l", "e", "d", "]", " ",
          "@", " ", "f", "a", "d", "e", "_", "i", "n", "(", "0", ".", "2", ",",
          " ", "0", ".", "8", ")", " ", "]", "]">> }

ConfiguredTemplateCodes ==
    { <<"[", "[", "[", "a", "]", "]", "[", "b", "]", "]">>,
      <<"[", "[", " ", "[", "a", "]", " ", "]", "]", "]">>,
      <<"[", "[", " ", "[", "a", "]", " ", "@", " ", "w", "o", "b", "b", "l",
          "e", "(", "1", ")", " ", "+", " ", "[", "b", "]", " ", "@", " ", "w",
          "o", "b", "b", "l", "e", "(", "2", ")", " ", "]", "]">>,
      <<"{", "[", "(", "a", ")", "]", "}", "\n", "[", "[", " ", "[", "b", "]",
          " ", "]", "]">> }

\* setTimeout(() => this.validateExpression(), 400)
Delay == 400

\* an onEditorChange that leaves the timer set before in place
ClearTimeoutNotCalled(ts, handle) == ts

\* if (this.validationTimeout) clearTimeout(this.validationTimeout): the
\* handle 0 is no handle, and a handle whose timer has run clears nothing
ClearTimeout(ts, handle) ==
    [ts EXCEPT !.pending = {x \in @ : x.id # handle}]

\* the handle setTimeout returns: a positive number no pending timer has
NewHandle(ts) ==
    CHOOSE id \in 1..(Cardinality(ts.pending) + 1) :
        /\ \A x \in ts.pending : x.id # id
        /\ \A smaller \in 1..(id - 1) : \E x \in ts.pending : x.id = smaller

SetTimeout(ts, id, delay) ==
    [ts EXCEPT !.pending = @ \cup {[id |-> id, due |-> delay]}]

\* a change event at this moment: a change that comes Delay or more after
\* the one before begins a new burst
ChangedNow(ts) ==
    [ts EXCEPT !.gap = ts.sinceChange, !.sinceChange = 0, !.ranAfter = 0,
               !.runs = IF ts.sinceChange < Delay THEN @ ELSE 0]

\* the 'change' event of the document: onEditorChange starts the validation
\* timer anew and refreshes the schedule preview from the new text, and the
\* lint pass is to run anew; the results of the text before are out of date
onEditorChange(t) ==
    /\ text' = t
    /\ lintErrors' = NoLint
    /\ syntaxValid' = NoVerdict
    /\ timers' = SetTimeout(ChangedNow(ClearTimeout(timers, validationTimeout)),
                            NewHandle(ClearTimeout(timers, validationTimeout)), Delay)
    /\ validationTimeout' = NewHandle(ClearTimeout(timers, validationTimeout))
    /\ call' = updateSchedulePreview(t)
    /\ query' = NoQuery
    /\ UNCHANGED <<scheduleMetadata, curveEval, configVars, lexer, loader,
                   shownMessage, cacheVars>>

\* a key pressed with the cursor at the end of the text
TypeKey(c) ==
    /\ Len(text) < MaxTextLen
    /\ onEditorChange(Append(text, c))

\* insertTemplate(code): replaceRange(code, cursor), into the empty editor
insertTemplate(code) ==
    /\ text = <<>>
    /\ onEditorChange(code)

\* clearEditor, confirmed: setValue('')
clearEditor ==
    /\ text # <<>>
    /\ onEditorChange(<<>>)

\* CodeMirror runs the lint helper on the document
LintPass ==
    /\ ~lintErrors.ran
    /\ lintErrors' = [ran |-> TRUE, errors |-> lint(text)]
    /\ UNCHANGED <<schedVars, curveEval, text, syntaxValid, configVars, lexer, pageVars>>

\* validateExpression(), which ends in updateSyntaxStatus(valid, message)
validateExpression ==
    /\ ~syntaxValid.ran
    /\ syntaxValid' = ValidateFrom(text, 1, <<>>)
    /\ UNCHANGED <<schedVars, curveEval, text, lintErrors, configVars, lexer, pageVars>>

LintInit == SchedIdle /\ CurveIdle /\ LintIdle /\ LexIdle /\ PageIdle

LintNext ==
    \/ \E c \in Keys : TypeKey(c)
    \/ \E code \in DefaultTemplateCodes \cup ConfiguredTemplateCodes : insertTemplate(code)
    \/ clearEditor
    \/ LintPass
    \/ validateExpression

LintSpec == LintInit /\ [][LintNext]_vars

\* the brackets of a text, in order
Brackets(t) == SelectSeq(t, LAMBDA c : c \in Openers \cup Closers)

\* a bracket string is correctly nested when taking out adjacent pairs
\* "()", "[]", "{}" again and again leaves nothing
RECURSIVE Cancel(_, _)
Cancel(bs, k) ==
    IF k >= Len(bs) THEN bs
    ELSE IF bs[k] \in Openers /\ bs[k + 1] = bracketPairs(bs[k])
    THEN Cancel(SubSeq(bs, 1, k - 1) \o Drop(bs, k + 1), 1)
    ELSE Cancel(bs, k + 1)

CorrectlyNested(t) == Cancel(Brackets(t), 1) = <<>>

\* C10: every text whose brackets (), [], {} are correctly nested validates
\* as valid: the lint helper returns no findings for it and validateExpression
\* returns true.
C10_NestedTextValidates ==
    CorrectlyNested(text) =>
        /\ lintErrors.ran => lintErrors.errors = <<>>
        /\ syntaxValid.ran => syntaxValid.valid

\* a correctly nested text for which the lint helper returns a finding while
\* validateExpression returns true
C10_Witness ==
    /\ CorrectlyNested(text)
    /\ lintErrors.ran /\ lintErrors.errors # <<>>
    /\ syntaxValid.ran /\ syntaxValid.valid

-----------------------------------------------------------------------------
(* Properties of the findings of the lint helper.                           *)

\* the kind of finding a message of the lint helper stands for
Kind(f) ==
    CASE f.message = "Unmatched closing bracket" -> "UnmatchedClosing"
      [] f.message = "Expected but found" -> "MismatchedBracket"
      [] f.message = "Unclosed bracket" -> "UnclosedBracket"
      [] f.message = "Unmatched double brackets [[ ]]" -> "UnbalancedDoubleBracket"
      [] f.message = "Unknown schedule function" -> "UnknownSchedule"

\* t with the character c put in after its first k characters
InsertAt(t, k, c) == SubSeq(t, 1, k) \o <<c>> \o Drop(t, k)

\* t is a correctly nested text with one of its closing brackets deleted
OneCloserDeleted(t) ==
    \E k \in 0..Len(t), c \in Closers : CorrectlyNested(InsertAt(t, k, c))

\* C11: deleting any single closing bracket of a correctly nested text makes
\* the lint helper return exactly one finding, an unclosed bracket or an
\* unmatched closing bracket, and validateExpression return false.
C11_DeletedCloserOneFinding ==
    OneCloserDeleted(text) =>
        /\ lintErrors.ran =>
              /\ Len(lintErrors.errors) = 1
              /\ Kind(lintErrors.errors[1]) \in {"UnclosedBracket", "UnmatchedClosing"}
        /\ syntaxValid.ran => ~syntaxValid.valid

\* a text with one closing bracket deleted for which the lint helper returns
\* two findings
C11_Witness ==
    /\ OneCloserDeleted(text)
    /\ lintErrors.ran /\ Len(lintErrors.errors) = 2
    /\ syntaxValid.ran /\ ~syntaxValid.valid

\* the findings of the bracket stack among the findings returned
StackFindings(errors) ==
    SelectSeq(errors, LAMBDA f : Kind(f) \in {"UnmatchedClosing", "MismatchedBracket",
                                              "UnclosedBracket"})

\* f is not to the right of g in the text
NotAfter(f, g) == f.line < g.line \/ (f.line = g.line /\ f.from <= g.from)

\* C12: the positions of successive bracket findings of the lint helper are
\* non-decreasing, so the first finding is at the leftmost offending position.
C12_FindingsInScanOrder ==
    lintErrors.ran =>
        \A k \in 1..(Len(StackFindings(lintErrors.errors)) - 1) :
            NotAfter(StackFindings(lintErrors.errors)[k],
                     StackFindings(lintErrors.errors)[k + 1])

\* a mismatched closing bracket is reported before the unclosed bracket that
\* stands to its left
C12_Witness ==
    /\ lintErrors.ran
    /\ Len(StackFindings(lintErrors.errors)) = 2
    /\ Kind(lintErrors.errors[1]) = "MismatchedBracket"
    /\ Kind(lintErrors.errors[2]) = "UnclosedBracket"
    /\ lintErrors.errors[2].from < lintErrors.errors[1].from

SurplusCloserText == <<"[", "[", " ", "[", "a", "]", " ", "]", "]", "]">>

\* C13, as claimed: the text [[ [a] ]]] is rejected, and the finding
\* reported is a mismatched or an unclosed bracket at the column of the
\* surplus closing bracket, the last character.
C13_SurplusCloserMismatchedOrUnclosed ==
    text = SurplusCloserText =>
        /\ lintErrors.ran =>
              \E k \in 1..Len(lintErrors.errors) :
                  /\ Kind(lintErrors.errors[k]) \in {"MismatchedBracket", "UnclosedBracket"}
                  /\ lintErrors.errors[k].from = Len(text) - 1
        /\ syntaxValid.ran => ~syntaxValid.valid

\* C13, amended: the text [[ [a] ]]] is rejected by validateExpression, and
\* the lint helper reports exactly one finding for it, an unmatched closing
\* bracket at the column of the surplus closing bracket, the last character.
C13_SurplusCloserUnmatched ==
    text = SurplusCloserText =>
        /\ lintErrors.ran =>
              /\ Len(lintErrors.errors) = 1
              /\ Kind(lintErrors.errors[1]) = "UnmatchedClosing"
              /\ lintErrors.errors[1].line = 0
              /\ lintErrors.errors[1].from = Len(text) - 1
              /\ lintErrors.errors[1].to = Len(text)
        /\ syntaxValid.ran => ~syntaxValid.valid

C13_Witness ==
    /\ text = SurplusCloserText
    /\ lintErrors.ran /\ lintErrors.errors # <<>>
    /\ syntaxValid.ran /\ syntaxValid.message = "Mismatched brackets"

\* the name after the "@" at column j of a line: what follows the "@" and
\* the whitespace, as far as it is an identifier
NameAfterAt(line, j) ==
    SubSeq(line, SkipWhile(line, j + 2, Whitespace),
           SkipWhile(line, SkipWhile(line, j + 2, Whitespace), WordChars) - 1)

\* column j of a line holds an "@" followed by a name that is not a known
\* schedule
UnknownScheduleAt(line, j) ==
    /\ line[j + 1] = "@"
    /\ NameAfterAt(line, j) # <<>>
    /\ NameAfterAt(line, j)[1] \in IdentStart
    /\ NameAfterAt(line, j) \notin schedFuncs

\* C14: for every occurrence of "@ name" with a name that is not a known
\* schedule, the lint helper returns a finding that carries the name and
\* starts at that occurrence, also when the name occurs twice on a line.
C14_UnknownScheduleAtItsOccurrence ==
    lintErrors.ran =>
        \A i \in 0..(Len(SplitLines(text)) - 1) :
            \A j \in 0..(Len(SplitLines(text)[i + 1]) - 1) :
                UnknownScheduleAt(SplitLines(text)[i + 1], j) =>
                    \E k \in 1..Len(lintErrors.errors) :
                        /\ Kind(lintErrors.errors[k]) = "UnknownSchedule"
                        /\ lintErrors.errors[k].detail
                               = NameAfterAt(SplitLines(text)[i + 1], j)
                        /\ lintErrors.errors[k].line = i
                        /\ lintErrors.errors[k].from = j

\* two findings for the two occurrences of one unknown name, both at the
\* position of the first occurrence
C14_Witness ==
    /\ lintErrors.ran
    /\ Len(lintErrors.errors) = 2
    /\ Kind(lintErrors.errors[1]) = "UnknownSchedule"
    /\ lintErrors.errors[1] = lintErrors.errors[2]
    /\ UnknownScheduleAt(text, 25)

\* t written on one line: every line break replaced by a space
OnOneLine(t) == [k \in 1..Len(t) |-> IF t[k] = "\n" THEN " " ELSE t[k]]

\* the lint helper accepts: no finding of severity error
NoErrorFinding(errors) == \A k \in 1..Len(errors) : errors[k].severity # "error"

\* C15: writing a text across several lines does not change whether the
\* validators accept it: the lint helper accepts the text exactly when it
\* accepts the text written on one line, so does validateExpression, and the
\* two give the same verdict.
C15_LineBreaksDoNotMatter ==
    /\ lintErrors.ran =>
          (NoErrorFinding(lintErrors.errors) <=> NoErrorFinding(lint(OnOneLine(text))))
    /\ syntaxValid.ran =>
          (syntaxValid.valid <=> ValidateFrom(OnOneLine(text), 1, <<>>).valid)
    /\ (lintErrors.ran /\ syntaxValid.ran) =>
          (NoErrorFinding(lintErrors.errors) <=> syntaxValid.valid)

\* a bracket opened on one line and closed on the next: validateExpression
\* accepts, the lint helper reports it, and accepts the same text on one line
C15_Witness ==
    /\ text = <<"(", "\n", ")">>
    /\ syntaxValid.ran /\ syntaxValid.valid
    /\ lintErrors.ran /\ Len(lintErrors.errors) = 2
    /\ lint(OnOneLine(text)) = <<>>

-----------------------------------------------------------------------------
(* The tokenizer of the promptmath mode: token(stream, state) is called by  *)
(* CodeMirror at the next unread character of a line, with the state the    *)
(* call before left, until the line is read; the state at the end of a line *)
(* is the state the next line starts with.  p is the index of the next      *)
(* unread character; every result names the index after what was consumed.  *)

SCHEDULE_FUNCTIONS ==
    { <<"f", "a", "d", "e", "_", "i", "n">>,
      <<"f", "a", "d", "e", "_", "o", "u", "t">>,
      <<"e", "m", "p", "h", "a", "s", "i", "s">>,
      <<"s", "c", "h", "e", "d", "u", "l", "e">>,
      <<"b", "e", "l", "l">>,
      <<"p", "u", "l", "s", "e">>,
      <<"s", "t", "e", "p">>,
      <<"l", "i", "n", "e", "a", "r">>,
      <<"s", "m", "o", "o", "t", "h">>,
      <<"e", "a", "s", "e", "_", "i", "n">>,
      <<"e", "a", "s", "e", "_", "o", "u", "t">>,
      <<"e", "x", "p", "o", "n", "e", "n", "t", "i", "a", "l">>,
      <<"l", "o", "g", "a", "r", "i", "t", "h", "m", "i", "c">>,
      <<"c", "o", "n", "s", "t", "a", "n", "t">>,
      <<"r", "a", "m", "p">>,
      <<"t", "r", "i", "a", "n", "g", "l", "e">>,
      <<"s", "a", "w", "t", "o", "o", "t", "h">> }

CURVE_TYPES ==
    { <<"l", "i", "n", "e", "a", "r">>,
      <<"s", "m", "o", "o", "t", "h">>,
      <<"s", "m", "o", "o", "t", "h", "s", "t", "e", "p">>,
      <<"e", "a", "s", "e", "_", "i", "n">>,
      <<"e", "a", "s", "e", "i", "n">>,
      <<"e", "a", "s", "e", "_", "o", "u", "t">>,
      <<"e", "a", "s", "e", "o", "u", "t">>,
      <<"b", "e", "l", "l">>,
      <<"g", "a", "u", "s", "s", "i", "a", "n">>,
      <<"s", "t", "e", "p">>,
      <<"t", "h", "r", "e", "s", "h", "o", "l", "d">>,
      <<"p", "u", "l", "s", "e">>,
      <<"s", "i", "n", "e">>,
      <<"e", "x", "p">>,
      <<"e", "x", "p", "o", "n", "e", "n", "t", "i", "a", "l">>,
      <<"l", "o", "g">>,
      <<"l", "o", "g", "a", "r", "i", "t", "h", "m", "i", "c">> }

\* the end of a match of /^\d+(\.\d+)?/ whose digits end before e
NumberEnd(line, e) ==
    IF e < Len(line) /\ line[e] = "." /\ line[e + 1] \in Digits
    THEN SkipWhile(line, e + 1, Digits)
    ELSE e

\* the end of a match of /^"([^"\\]|\\.)*"/ read up to p, 0 when there is
\* no closing quote
RECURSIVE StringEnd(_, _)
StringEnd(line, p) ==
    IF p > Len(line) THEN 0
    ELSE IF line[p] = "\"" THEN p + 1
    ELSE IF line[p] = "\\" THEN (IF p + 1 > Len(line) THEN 0 ELSE StringEnd(line, p + 2))
    ELSE StringEnd(line, p + 1)

\* the identifier branch: word is stream.current(), e the index after it,
\* line[e] is stream.peek(); a word of MATH_FUNCTIONS and an unknown word
\* get the same style
Identifier(line, st, word, e) ==
    IF e <= Len(line) /\ line[e] = "("
    THEN IF st.expectingSchedule /\ word \in SCHEDULE_FUNCTIONS
         THEN [state |-> [st EXCEPT !.expectingSchedule = FALSE], end |-> e,
               style |-> "prompt-math-schedule"]
         ELSE [state |-> st, end |-> e, style |-> "prompt-math-function"]
    ELSE IF st.lastToken = "|" /\ word \in CURVE_TYPES
    THEN [state |-> st, end |-> e, style |-> "prompt-math-schedule"]
    ELSE IF st.inToken
    THEN [state |-> st, end |-> e, style |-> "prompt-math-token"]
    ELSE [state |-> st, end |-> e, style |-> "null"]

\* a "]" read as a closing bracket whether or not a "[" is open
ClosesTokenUnopened(line, p, st) == line[p] = "]"

\* state.inToken && stream.match(/^\]/)
ClosesToken(line, p, st) == st.inToken /\ line[p] = "]"

tokenWithoutNext(line, p, st) == [state |-> st, end |-> p, style |-> "null"]

\* token(stream, state) at the unread character line[p]
token(line, p, st) ==
    IF line[p] \in Whitespace
    THEN [state |-> st, end |-> SkipWhile(line, p, Whitespace), style |-> "null"]
    ELSE IF line[p] = "#"
    THEN [state |-> st, end |-> Len(line) + 1, style |-> "comment"]
    ELSE IF line[p] = "[" /\ p < Len(line) /\ line[p + 1] = "["
    THEN [state |-> [st EXCEPT !.inDoubleExpr = TRUE, !.bracketDepth = @ + 2],
          end |-> p + 2, style |-> "prompt-math-bracket"]
    ELSE IF st.inDoubleExpr /\ line[p] = "]" /\ p < Len(line) /\ line[p + 1] = "]"
    THEN [state |-> [st EXCEPT !.inDoubleExpr = FALSE, !.bracketDepth = @ - 2],
          end |-> p + 2, style |-> "prompt-math-bracket"]
    ELSE IF line[p] = "["
    THEN [state |-> [st EXCEPT !.inToken = TRUE, !.bracketDepth = @ + 1],
          end |-> p + 1, style |-> "prompt-math-bracket"]
    ELSE IF ClosesToken(line, p, st)
    THEN [state |-> [st EXCEPT !.inToken = FALSE, !.bracketDepth = @ - 1],
          end |-> p + 1, style |-> "prompt-math-bracket"]
    ELSE IF line[p] = "{"
    THEN [state |-> [st EXCEPT !.braceDepth = @ + 1], end |-> p + 1,
          style |-> "prompt-math-bracket"]
    ELSE IF line[p] = "}"
    THEN [state |-> [st EXCEPT !.braceDepth = @ - 1], end |-> p + 1,
          style |-> "prompt-math-bracket"]
    ELSE IF line[p] = "("
    THEN [state |-> [st EXCEPT !.parenDepth = @ + 1], end |-> p + 1,
          style |-> "prompt-math-operator"]
    ELSE IF line[p] = ")"
    THEN [state |-> [st EXCEPT !.parenDepth = @ - 1], end |-> p + 1,
          style |-> "prompt-math-operator"]
    ELSE IF line[p] = "@"
    THEN [state |-> [st EXCEPT !.expectingSchedule = TRUE], end |-> p + 1,
          style |-> "prompt-math-schedule"]
    ELSE IF line[p] = "-" /\ p < Len(line) /\ line[p + 1] = ">"
    THEN [state |-> st, end |-> p + 2, style |-> "prompt-math-operator"]
    ELSE IF line[p] \in {"+", "-", "*", "/", "<", ">", "=", ",", ":", ";", "|"}
    THEN [state |-> st, end |-> p + 1, style |-> "prompt-math-operator"]
    ELSE IF line[p] \in Digits
    THEN [state |-> st, end |-> NumberEnd(line, SkipWhile(line, p, Digits)),
          style |-> "prompt-math-number"]
    ELSE IF line[p] = "\"" /\ StringEnd(line, p + 1) # 0
    THEN [state |-> st, end |-> StringEnd(line, p + 1), style |-> "string"]
    ELSE IF line[p] \in IdentStart
    THEN Identifier(line, st, SubSeq(line, p, SkipWhile(line, p, WordChars) - 1),
                    SkipWhile(line, p, WordChars))
    ELSE IF st.inToken
    THEN [state |-> st, end |-> p + 1, style |-> "prompt-math-token"]
    ELSE [state |-> st, end |-> p + 1, style |-> "null"]

\* the lines tokenised, and how many lines of a document
MaxLines == 2
TokenLines ==
    { <<"[", "[", " ", "[", "a", "-", "b", " ", "2", "(", "x", ")", "]", " ",
          "]", "]">>,
      <<"[", "[", " ", "[", "a", "]", " ", "@", " ", "w", "o", "b", "b", "l",
          "e", "(", "1", ")", " ", "+", " ", "f", "a", "d", "e", "_", "i", "n",
          "(", "2", ")", " ", "]", "]">>,
      <<"[", "[", " ", "[", "a", "]", " ", "@", " ", "f", "a", "d", "e", "_",
          "i", "n", "(", "0", ".", "2", ",", " ", "0", ".", "8", ")", " ", "]",
          "]">>,
      <<"[", "r", "e", "d", " ", "c", "a", "r", "]", " ", "#", " ", "n", "o",
          "t", "e">>,
      <<"m", "e", "a", "n", "(", "[", "a", "]", ",", "[", "b", "]", ")", " ",
          "-", ">", " ", "\"", "x", " ", "y", "\"", " ", "{", "0", ":", "1", "}">>,
      <<"[", "i", "t", "'", "s", " ", "@", " ", "\"", "q", "\"", " ", "#", "1">>,
      <<"]", " ", "]", "]", " ", "}", " ", ")", " ", "1", ".", "5", ".", "x",
          " ", "!">>,
      <<"f", "a", "d", "e", "_", "i", "n", "(", "1", ")", " ", "|", " ", "s",
          "m", "o", "o", "t", "h", " ", "\"", "a", "\\", "\"">>,
      <<"[", "a", "]", " ", "@", " ", "e", "a", "s", "e", "_", "i", "n", "(", "0",
          ",", " ", "1", ")", " ", "+", " ", "[", "b", "]", " ", "@", " ", "s",
          "l", "i", "d", "e", "(", "1", ")">>,
      <<"[", "[", "[", "a", "]", "]", "]", " ", "]", "]", " ", "]", " ", "[", "[",
          "[", "[", "]", "]">>,
      <<"@">> }

\* CodeMirror begins the next line with the state the line before ended in
StartLine(line) ==
    /\ lexer.pos = Len(lexer.line)
    /\ lexer.lineNo < MaxLines
    /\ lexer' = [line |-> line, pos |-> 0, start |-> 0, state |-> lexer.state,
                 before |-> lexer.state, style |-> "null", calls |-> 0,
                 lineNo |-> lexer.lineNo + 1]
    /\ UNCHANGED <<schedVars, curveEval, lintVars, configVars, pageVars>>

\* one call of token on the unread rest of the line
TokenCall ==
    /\ lexer.pos < Len(lexer.line)
    /\ LET r == token(lexer.line, lexer.pos + 1, lexer.state)
       IN  lexer' = [lexer EXCEPT !.pos = r.end - 1, !.start = lexer.pos,
                                  !.state = r.state, !.before = lexer.state,
                                  !.style = r.style, !.calls = @ + 1]
    /\ UNCHANGED <<schedVars, curveEval, lintVars, configVars, pageVars>>

TokenInit == SchedIdle /\ CurveIdle /\ LintIdle /\ LexIdle /\ PageIdle

TokenNext ==
    \/ \E line \in TokenLines : StartLine(line)
    \/ TokenCall

TokenSpec == TokenInit /\ [][TokenNext]_vars

\* the latest call of token read a character between a single "[" and its
\* closing "]": it began inside a token and not at a bracket
ReadTokenContent ==
    /\ lexer.calls > 0
    /\ lexer.before.inToken
    /\ lexer.line[lexer.start + 1] \notin {"[", "]"}

\* C16: between a single "[" and its closing "]" every character is token
\* name content: the call of token returns the token style, no operator,
\* number, comment, string or schedule style, and changes no field of the
\* state other than inToken and bracketDepth.
C16_TokenContentVerbatim ==
    ReadTokenContent =>
        /\ lexer.style = "prompt-math-token"
        /\ [lexer.state EXCEPT !.inToken = FALSE, !.bracketDepth = 0]
               = [lexer.before EXCEPT !.inToken = FALSE, !.bracketDepth = 0]

\* inside [ ... ] an "@" is returned as the schedule operator and switches
\* expectingSchedule on
C16_Witness ==
    /\ ReadTokenContent
    /\ lexer.line[lexer.start + 1] = "@"
    /\ lexer.style = "prompt-math-schedule"
    /\ lexer.state.expectingSchedule /\ ~lexer.before.expectingSchedule

\* C17: every call of token on a non-empty rest of a line consumes at least
\* one character and stays within the line, so a line is read in at most as
\* many calls as it has characters.
C17_LexingAdvances ==
    /\ lexer.pos <= Len(lexer.line)
    /\ lexer.calls <= lexer.pos
    /\ lexer.calls > 0 => lexer.start < lexer.pos

\* a line read to its end from a state left by the line before, the last
\* call having consumed one character that no rule names
C17_Witness ==
    /\ lexer.lineNo = 2
    /\ lexer.calls > 0
    /\ lexer.pos = Len(lexer.line)
    /\ lexer.line[lexer.pos] = "!"
    /\ lexer.start = lexer.pos - 1
    /\ lexer.before.expectingSchedule

\* the latest call of token read an identifier that a "(" follows
ReadCalledName ==
    /\ lexer.calls > 0
    /\ lexer.line[lexer.start + 1] \in IdentStart
    /\ lexer.pos < Len(lexer.line)
    /\ lexer.line[lexer.pos + 1] = "("

\* the index of the last character before index k of the line that is not
\* whitespace, 0 when there is none
RECURSIVE LastInkBefore(_, _)
LastInkBefore(line, k) ==
    IF k <= 1 THEN 0
    ELSE IF line[k - 1] \in Whitespace THEN LastInkBefore(line, k - 1)
    ELSE k - 1

\* the identifier read is the first one after an "@"
FirstAfterAt ==
    /\ LastInkBefore(lexer.line, lexer.start + 1) > 0
    /\ lexer.line[LastInkBefore(lexer.line, lexer.start + 1)] = "@"

\* C18: an identifier followed by "(" gets the schedule style only when it
\* is the first identifier after an "@"; elsewhere it gets the function
\* style, also when it is the name of a schedule.
C18_ScheduleOnlyAfterAt ==
    ReadCalledName =>
        /\ lexer.style = "prompt-math-schedule" => FirstAfterAt
        /\ ~FirstAfterAt => lexer.style = "prompt-math-function"

\* fade_in( gets the schedule style although the "@" before it was followed
\* by another name
C18_Witness ==
    /\ ReadCalledName
    /\ ~FirstAfterAt
    /\ lexer.lineNo = 1
    /\ SubSeq(lexer.line, lexer.start + 1, lexer.pos)
           = <<"f", "a", "d", "e", "_", "i", "n">>
    /\ lexer.style = "prompt-math-schedule"

-----------------------------------------------------------------------------
(* Live reconfiguration: the registry is merged again and its entries are   *)
(* written while a time function made from it is still in use.              *)

\* config.scheduleFunctions of a configuration that supplies an entry under
\* the name of a built-in: no direction, other defaults, clamping disabled
OverrideScheduleFunctions ==
    [n \in {"fade_out"} |->
        [direction |-> Undefined,
         defaults |-> [k \in {"end", "curve"} |->
                          IF k = "end" THEN Num(Half) ELSE Str(K_smooth)],
         parameters |-> BuiltinParameters,
         clamp |-> False]]

\* the configurations the registry is merged from: those of Configs, one
\* that overrides a built-in, and the result of an earlier merge, which the
\* bootstrap hands to the constructor
RegistryConfigs ==
    Configs
    \cup {[hasScheduleFunctions |-> TRUE, scheduleFunctions |-> OverrideScheduleFunctions]}
    \cup {[hasScheduleFunctions |-> TRUE, scheduleFunctions |-> mergePromptMathConfig(c)] :
             c \in Configs}

RegistryArgLists ==
    {<<>>, <<Num(Q(1, 4))>>, <<Undefined, Num(Q(3, 4)), Str(K_ease_in)>>}

RegistryTimes == {Q(1, 8), Half, Q(7, 8)}

\* the entries whose defaults are written after the merge, and the value
MutableNames == {"fade_out", "ramp"}
MutatedDefault == Num(Q(3, 8))

\* obj[key] = value
SetProperty(obj, key, value) ==
    [k \in DOMAIN obj \cup {key} |-> IF k = key THEN value ELSE obj[k]]

WithDefault(info, key, value) ==
    [info EXCEPT !.defaults = SetProperty(info.defaults, key, value)]

\* the entries config.scheduleFunctions supplies
Supplied(config) ==
    IF config.hasScheduleFunctions THEN DOMAIN config.scheduleFunctions ELSE {}

\* new PromptMathEditor(config): the registry is merged from the built-ins
\* and the configuration, and the factories are built from it; a time
\* function made earlier stays with its holder. merged is a JSON copy of
\* the built-in configuration, which is only read.
Reconfigure(config) ==
    /\ userConfig' = config
    /\ scheduleMetadata' = mergePromptMathConfig(config)
    /\ UNCHANGED <<defaultConfig, call, query, curveEval, lintVars, lexer, pageVars>>

\* registry[name].defaults[key] = value by a holder of the merged
\* configuration. The factory reads defaults through the same object; an
\* entry the configuration supplied is the configuration's own object, an
\* entry of a built-in belongs to the JSON copy.
MutateDefaults(name, key, value) ==
    /\ name \in DOMAIN scheduleMetadata
    /\ scheduleMetadata' =
           [scheduleMetadata EXCEPT ![name] = WithDefault(@, key, value)]
    /\ userConfig' =
           IF name \in Supplied(userConfig)
           THEN [userConfig EXCEPT !.scheduleFunctions[name] = WithDefault(@, key, value)]
           ELSE userConfig
    /\ UNCHANGED <<defaultConfig, call, query, curveEval, lintVars, lexer, pageVars>>

RegistryInit == SchedIdle /\ CurveIdle /\ LintIdle /\ LexIdle /\ PageIdle

RegistryNext ==
    \/ \E name \in DOMAIN scheduleMetadata, args \in RegistryArgLists :
           CallFactory(name, args)
    \/ \E tau \in RegistryTimes : QueryTime(tau)
    \/ ClearSchedules
    \/ \E config \in RegistryConfigs : Reconfigure(config)
    \/ \E name \in MutableNames, key \in {"start", "end"} :
           MutateDefaults(name, key, MutatedDefault)

RegistrySpec == RegistryInit /\ [][RegistryNext]_vars

MergedAsSupplied ==
    /\ \A n \in Supplied(userConfig) :
           /\ n \in DOMAIN scheduleMetadata
           /\ scheduleMetadata[n] = userConfig.scheduleFunctions[n]
    /\ \A n \in DOMAIN DEFAULT_SCHEDULE_FUNCTIONS \ Supplied(userConfig) :
           /\ n \in DOMAIN scheduleMetadata
           /\ scheduleMetadata[n] = DEFAULT_SCHEDULE_FUNCTIONS[n]
    /\ defaultConfig = DEFAULT_SCHEDULE_FUNCTIONS

\* C20: after a merge the registry holds, under every name the
\* configuration supplies, exactly the supplied entry, also under the name
\* of a built-in; every other built-in entry is present unchanged; the
\* built-in configuration itself is not modified.
C20_LastWriteWins ==
    [][(\E config \in RegistryConfigs : Reconfigure(config)) => MergedAsSupplied']_vars

\* the registry merged from the overriding configuration: fade_out is the
\* supplied entry, without the built-in's direction and start, and fade_in
\* is the built-in
C20_Witness ==
    /\ userConfig.hasScheduleFunctions
    /\ userConfig.scheduleFunctions = OverrideScheduleFunctions
    /\ scheduleMetadata["fade_out"] = OverrideScheduleFunctions["fade_out"]
    /\ scheduleMetadata["fade_out"] # DEFAULT_SCHEDULE_FUNCTIONS["fade_out"]
    /\ "start" \notin DOMAIN scheduleMetadata["fade_out"].defaults
    /\ scheduleMetadata["fade_in"] = DEFAULT_SCHEDULE_FUNCTIONS["fade_in"]
    /\ defaultConfig = DEFAULT_SCHEDULE_FUNCTIONS

-----------------------------------------------------------------------------
(* The double-bracket parity finding.                                       *)

\* the parity findings among the findings, and those of line i
ParityFindings(errors) ==
    SelectSeq(errors, LAMBDA f : Kind(f) = "UnbalancedDoubleBracket")

ParityFindingOn(errors, i) ==
    \E k \in 1..Len(errors) :
        Kind(errors[k]) = "UnbalancedDoubleBracket" /\ errors[k].line = i

\* C21: the lint helper reports the unbalanced-double-bracket finding for a
\* line exactly when the line holds an odd number of "[[" and "]]" markers;
\* a text whose brackets are all correctly nested gets no such finding.
C21_ParityFindingOnlyWhenUnbalanced ==
    lintErrors.ran =>
        /\ \A i \in 1..Len(SplitLines(text)) :
               ParityFindingOn(lintErrors.errors, i - 1)
                   <=> CountDoubleBrackets(SplitLines(text)[i], 1) % 2 = 1
        /\ CorrectlyNested(text) => ParityFindings(lintErrors.errors) = <<>>

\* [[[a]][b]] is correctly nested and gets the parity finding, its only one
C21_Witness ==
    /\ text = <<"[", "[", "[", "a", "]", "]", "[", "b", "]", "]">>
    /\ CorrectlyNested(text)
    /\ lintErrors.ran
    /\ Len(lintErrors.errors) = 1
    /\ ParityFindings(lintErrors.errors) = lintErrors.errors

-----------------------------------------------------------------------------
(* loadPromptMathConfig: the stored configuration, the API, the static      *)
(* file, the built-in defaults.                                             *)

\* what response.json() can give: null, a falsy and a truthy value that is
\* no object, and the configurations of RegistryConfigs
JsonValue(t, truthy, config) == [t |-> t, truthy |-> truthy, config |-> config]
JsonNull == JsonValue("null", FALSE, [hasScheduleFunctions |-> FALSE, scheduleFunctions |-> <<>>])
Payloads ==
    { JsonNull,
      JsonValue("number", FALSE, JsonNull.config),
      JsonValue("number", TRUE, JsonNull.config) }
    \cup { JsonValue("object", TRUE, c) : c \in RegistryConfigs }

\* what a request can come to: fetch rejects, the response is not ok, its
\* body is no JSON, or its body is a JSON value
FetchOutcomes ==
    { [kind |-> k, payload |-> JsonNull] : k \in {"rejected", "httpError", "badJson"} }
    \cup { [kind |-> "json", payload |-> p] : p \in Payloads }

\* the try block of the two fetch functions: fetch rejects, a response
\* that is not ok throws, response.json() rejects, or the JSON value is
\* returned
FetchBody(outcome) ==
    [threw |-> outcome.kind # "json", payload |-> outcome.payload]

\* fetchPromptMathConfigFromApi and fetchPromptMathConfigFromFile, which
\* differ in the URL: null when fetch is no function, null from the catch
\* block for whatever the try block threw, the JSON value otherwise
fetchPromptMathConfig(hasFetch, outcome) ==
    IF ~hasFetch THEN [requested |-> FALSE, threw |-> FALSE, payload |-> JsonNull]
    ELSE [requested |-> TRUE, threw |-> FALSE,
          payload |-> IF FetchBody(outcome).threw THEN JsonNull
                      ELSE FetchBody(outcome).payload]

\* what a request yielded: something, or nothing for the reason the
\* warning of the catch block names, for want of fetch, or for a falsy value
Yielded(hasFetch, outcome) ==
    IF ~hasFetch THEN "noFetch"
    ELSE IF outcome.kind # "json" THEN outcome.kind
    ELSE IF outcome.payload.truthy THEN "something" ELSE "falsy"

YieldedNothing(y) == y \in {"noFetch", "rejected", "httpError", "badJson", "falsy"}

\* mergePromptMathConfig(payload || {}) as window.promptMathConfig holds it:
\* a value that is no object leaves the copy of the defaults as it is
MergedPayload(payload) ==
    [t |-> "object",
     scheduleFunctions |-> IF payload.truthy /\ payload.t = "object"
                           THEN mergePromptMathConfig(payload.config)
                           ELSE DEFAULT_SCHEDULE_FUNCTIONS]

\* the calls of loadPromptMathConfig the model follows
MaxLoads == 3

\* loadPromptMathConfig() up to its first await: a stored configuration is
\* returned at once
LoadStart ==
    /\ loader.pc = "idle"
    /\ loader.completed < MaxLoads
    /\ loader' =
           IF loader.window.t # "undefined"
           THEN [loader EXCEPT !.hadStored = loader.window, !.sent = 0,
                               !.source = "window", !.returned = loader.window,
                               !.completed = @ + 1]
           ELSE [loader EXCEPT !.pc = "api", !.hadStored = loader.window, !.sent = 0,
                               !.source = "none"]
    /\ UNCHANGED <<schedVars, curveEval, lintVars, configVars, lexer, timerVars,
                   shownMessage, cacheVars>>

\* payload = await fetchPromptMathConfigFromApi()
AwaitApi(outcome) ==
    /\ loader.pc = "api"
    /\ LET r == fetchPromptMathConfig(loader.hasFetch, outcome)
       IN  loader' =
               [loader EXCEPT !.pc = IF r.threw THEN "idle"
                                     ELSE IF r.payload.truthy THEN "merge" ELSE "file",
                              !.rejected = r.threw,
                              !.requests = IF r.requested THEN Append(@, "api") ELSE @,
                              !.sent = IF r.requested THEN @ + 1 ELSE @,
                              !.api = Yielded(loader.hasFetch, outcome),
                              !.payload = r.payload]
    /\ UNCHANGED <<schedVars, curveEval, lintVars, configVars, lexer, timerVars,
                   shownMessage, cacheVars>>

\* if (!payload) payload = await fetchPromptMathConfigFromFile()
AwaitFile(outcome) ==
    /\ loader.pc = "file"
    /\ LET r == fetchPromptMathConfig(loader.hasFetch, outcome)
       IN  loader' =
               [loader EXCEPT !.pc = IF r.threw THEN "idle" ELSE "merge",
                              !.rejected = r.threw,
                              !.requests = IF r.requested THEN Append(@, "file") ELSE @,
                              !.sent = IF r.requested THEN @ + 1 ELSE @,
                              !.file = Yielded(loader.hasFetch, outcome),
                              !.payload = r.payload]
    /\ UNCHANGED <<schedVars, curveEval, lintVars, configVars, lexer, timerVars,
                   shownMessage, cacheVars>>

\* where the configuration returned came from
SourceOf(l) ==
    IF ~l.payload.truthy THEN "defaults"
    ELSE IF l.api = "something" THEN "api" ELSE "file"

\* the merge whose result is returned and not stored
ReturnMergedWithoutStoring ==
    /\ loader.pc = "merge"
    /\ loader' = [loader EXCEPT !.pc = "idle",
                                !.source = SourceOf(loader),
                                !.returned = MergedPayload(loader.payload),
                                !.completed = @ + 1]
    /\ UNCHANGED <<schedVars, curveEval, lintVars, configVars, lexer, timerVars,
                   shownMessage, cacheVars>>

\* merged = mergePromptMathConfig(payload || {}); window.promptMathConfig =
\* merged; return merged
ReturnMerged ==
    /\ loader.pc = "merge"
    /\ loader' = [loader EXCEPT !.pc = "idle",
                                !.source = SourceOf(loader),
                                !.window = MergedPayload(loader.payload),
                                !.returned = MergedPayload(loader.payload),
                                !.completed = @ + 1]
    /\ UNCHANGED <<schedVars, curveEval, lintVars, configVars, lexer, timerVars,
                   shownMessage, cacheVars>>

\* the page may have window.promptMathConfig set before the script runs,
\* and may have no fetch function
LoadInit ==
    /\ SchedIdle /\ CurveIdle /\ LintIdle /\ LexIdle
    /\ TimerIdle /\ MessageIdle /\ CacheIdle
    /\ loader \in { [NoLoader EXCEPT !.window = w, !.hasFetch = f] :
                      f \in BOOLEAN,
                      w \in {NoStored} \cup {MergedPayload(JsonValue("object", TRUE, c)) :
                                                 c \in Configs} }

LoadNext ==
    \/ LoadStart
    \/ \E outcome \in FetchOutcomes : AwaitApi(outcome)
    \/ \E outcome \in FetchOutcomes : AwaitFile(outcome)
    \/ ReturnMerged

LoadSpec == LoadInit /\ [][LoadNext]_vars

\* C22: a call that finds a stored configuration returns it without a
\* request; otherwise the API is requested first, the file only when the
\* API yielded nothing, and the defaults are used only when both yielded
\* nothing; no call rejects; once a call has returned, every later call
\* returns the stored configuration without a request.
C22_LoadingOrder ==
    /\ ~loader.rejected
    /\ loader.requests \in {<<>>, <<"api">>, <<"api", "file">>}
    /\ loader.hadStored.t # "undefined" =>
           /\ loader.pc = "idle" /\ loader.sent = 0
           /\ loader.source = "window" /\ loader.returned = loader.hadStored
    /\ loader.file # "none" => YieldedNothing(loader.api)
    /\ loader.source = "api" => loader.api = "something"
    /\ loader.source = "file" => YieldedNothing(loader.api) /\ loader.file = "something"
    /\ loader.source = "defaults" => YieldedNothing(loader.api) /\ YieldedNothing(loader.file)
    /\ loader.completed >= 2 =>
           /\ loader.pc = "idle" /\ loader.sent = 0
           /\ loader.source = "window" /\ loader.returned = loader.window

\* the API failed, the file gave a configuration with schedules of its
\* own, and the second call returned what the first had stored
C22_Witness ==
    /\ loader.completed = 2
    /\ loader.requests = <<"api", "file">>
    /\ YieldedNothing(loader.api) /\ loader.file = "something"
    /\ loader.source = "window" /\ loader.sent = 0
    /\ loader.returned = loader.window
    /\ "ramp" \in DOMAIN loader.returned.scheduleFunctions

-----------------------------------------------------------------------------
(* The validation timer of onEditorChange.                                  *)

\* the step by which the model lets time pass, and the keys typed
TickMs == 100
DebounceKeys == {"(", ")"}

Later(x, ms) == [x EXCEPT !.due = IF @ > ms THEN @ - ms ELSE 0]

\* TickMs milliseconds pass; a timer that is due may run later than it is
\* due. The time since the latest change is followed up to Delay + 2 TickMs.
Tick ==
    /\ timers.sinceChange < Delay + 2 * TickMs
    /\ timers' = [timers EXCEPT !.pending = {Later(x, TickMs) : x \in @},
                                !.sinceChange = @ + TickMs]
    /\ UNCHANGED <<schedVars, curveEval, lintVars, configVars, lexer, loader,
                   validationTimeout, shownMessage, cacheVars>>

\* a timer that is due runs () => this.validateExpression()
ValidationTimeout(x) ==
    /\ x \in timers.pending
    /\ x.due = 0
    /\ timers' = [timers EXCEPT !.pending = @ \ {x}, !.runs = @ + 1,
                                !.ranAfter = timers.sinceChange]
    /\ syntaxValid' = ValidateFrom(text, 1, <<>>)
    /\ UNCHANGED <<schedVars, curveEval, text, lintErrors, configVars, lexer, loader,
                   validationTimeout, shownMessage, cacheVars>>

DebounceInit == LintInit

DebounceNext ==
    \/ \E c \in DebounceKeys : TypeKey(c)
    \/ Tick
    \/ \E x \in timers.pending : ValidationTimeout(x)

\* time passes, and the page runs a timer that is due
DebounceSpec ==
    /\ DebounceInit
    /\ [][DebounceNext]_vars
    /\ WF_vars(Tick)
    /\ WF_vars(\E x \in timers.pending : ValidationTimeout(x))

TimerPending == timers.pending # {}

\* C23: at most one validation timer is pending; a timer runs
\* validateExpression no earlier than 400 ms after the latest change and at
\* most once for a burst of changes less than 400 ms apart; a pending timer
\* runs in the end, once the changes have stopped.
C23_DebouncedValidation ==
    /\ [](/\ Cardinality(timers.pending) <= 1
          /\ timers.runs <= 1
          /\ timers.runs > 0 => timers.ranAfter >= Delay)
    /\ TimerPending ~> (~TimerPending /\ timers.runs = 1)

\* two changes less than 400 ms apart, then one validation of the text
C23_Witness ==
    /\ Len(text) >= 2
    /\ timers.gap > 0 /\ timers.gap < Delay
    /\ ~TimerPending
    /\ timers.runs = 1
    /\ timers.ranAfter >= Delay
    /\ syntaxValid.ran

-----------------------------------------------------------------------------
(* parseExpression: validation before the preview is rebuilt.               *)

Shown(type, rebuilt) == [type |-> type, rebuilt |-> rebuilt]

\* a parseExpression that does not ask validateExpression
parseExpressionUngated ==
    /\ shownMessage' = Shown("success", TRUE)
    /\ call' = updateSchedulePreview(text)
    /\ query' = NoQuery
    /\ UNCHANGED <<scheduleMetadata, curveEval, lintVars, configVars, lexer, loader,
                   timerVars, cacheVars>>

\* parseExpression(), the parse button: a warning for a text that is empty
\* when trimmed; the error of validateExpression(), which sets the syntax
\* status; otherwise the success message and updateSchedulePreview()
parseExpression ==
    IF Trim(text) = <<>>
    THEN /\ shownMessage' = Shown("warning", FALSE)
         /\ UNCHANGED <<schedVars, curveEval, lintVars, configVars, lexer, loader,
                        timerVars, cacheVars>>
    ELSE /\ syntaxValid' = ValidateFrom(text, 1, <<>>)
         /\ IF ~syntaxValid'.valid
            THEN /\ shownMessage' = Shown("error", FALSE)
                 /\ UNCHANGED <<call, query>>
            ELSE /\ shownMessage' = Shown("success", TRUE)
                 /\ call' = updateSchedulePreview(text)
                 /\ query' = NoQuery
         /\ UNCHANGED <<scheduleMetadata, curveEval, text, lintErrors, configVars,
                        lexer, loader, timerVars, cacheVars>>

\* an unbalanced text with a schedule call, and a text of blanks
ParseCodes ==
    { <<"(", " ", "@", " ", "f", "a", "d", "e", "_", "i", "n", "(", "0", ".", "2", ",",
        " ", "0", ".", "8", ")">>,
      <<" ", "\n", " ">> }

ParseKeys == {"(", ")", " "}

ParseInit == LintInit

ParseNext ==
    \/ \E c \in ParseKeys : TypeKey(c)
    \/ \E code \in DefaultTemplateCodes \cup ParseCodes : insertTemplate(code)
    \/ clearEditor
    \/ ClearSchedules
    \/ parseExpression

ParseSpec == ParseInit /\ [][ParseNext]_vars

\* C24: parseExpression shows the success message and rebuilds the schedule
\* preview exactly when the text is not empty and validateExpression returns
\* true for it; for an empty text it shows a warning, for a text that fails
\* validation an error, and in both cases the preview stays as it was.
C24_ValidationGatesParsing ==
    [][parseExpression =>
          /\ shownMessage'.type = "success"
                 <=> (Trim(text) # <<>> /\ ValidateFrom(text, 1, <<>>).valid)
          /\ shownMessage'.type = "success" =>
                 /\ shownMessage'.rebuilt
                 /\ call' = updateSchedulePreview(text)
          /\ shownMessage'.type # "success" =>
                 /\ shownMessage'.type = IF Trim(text) = <<>> THEN "warning" ELSE "error"
                 /\ ~shownMessage'.rebuilt
                 /\ call' = call /\ query' = query]_vars

\* the preview was cleared, the text holds a schedule call and an unclosed
\* bracket: parseExpression showed the error and the preview is still empty
C24_Witness ==
    /\ shownMessage = Shown("error", FALSE)
    /\ syntaxValid.ran /\ ~syntaxValid.valid
    /\ ~call.made
    /\ updateSchedulePreview(text).made

-----------------------------------------------------------------------------
(* The schedule names known to the tokenizer, the lint helper and the       *)
(* editor's factories.                                                      *)

\* the identifier the latest call of token read
WordRead == SubSeq(lexer.line, lexer.start + 1, lexer.pos)

\* the lint helper warns of the name on the line
WarnedOf(name, line) ==
    \E k \in 1..Len(lint(line)) :
        /\ Kind(lint(line)[k]) = "UnknownSchedule"
        /\ lint(line)[k].detail = name

\* the names under which a configuration of Configs gives the editor a
\* factory
FactoryNames ==
    { name \in {<<"f", "a", "d", "e", "_", "i", "n">>,
                <<"f", "a", "d", "e", "_", "o", "u", "t">>, <<"r", "a", "m", "p">>,
                <<"s", "l", "i", "d", "e">>, <<"h", "o", "l", "d">>,
                <<"e", "a", "s", "e">>} :
        \E c \in Configs : ScheduleKey(name) \in DOMAIN mergePromptMathConfig(c) }

\* C25: a name called right after "@" gets no 'Unknown schedule function'
\* warning from the lint helper exactly when the tokenizer gives it the
\* schedule style, and every name the editor holds a factory for is a known
\* schedule name of both.
C25_OneSetOfScheduleNames ==
    /\ ReadCalledName /\ FirstAfterAt =>
           (lexer.style = "prompt-math-schedule" <=> ~WarnedOf(WordRead, lexer.line))
    /\ \A name \in FactoryNames : name \in schedFuncs /\ name \in SCHEDULE_FUNCTIONS

\* ease_in( after "@" gets the schedule style from the tokenizer and the
\* warning from the lint helper
C25_Witness ==
    /\ ReadCalledName /\ FirstAfterAt
    /\ WordRead = <<"e", "a", "s", "e", "_", "i", "n">>
    /\ lexer.style = "prompt-math-schedule"
    /\ WarnedOf(WordRead, lexer.line)

-----------------------------------------------------------------------------
(* ExpressionCache: the list of saved expressions and its copy in           *)
(* localStorage.                                                            *)

\* this.maxEntries, 50 in the code, scaled down
maxEntries == 2
\* the usage counts followed
MaxUsage == 1

NamePool == <<"a", "b", "c", "d", "e">>
Names == {NamePool[k] : k \in 1..(maxEntries + 1)}
Expressions == {"[x]", "[y]"}
Timestamps == {2}

Entry(pseudo, expression, usageCount, timestamp) ==
    [pseudo |-> pseudo, expression |-> expression, usageCount |-> usageCount,
     timestamp |-> timestamp]

\* what the latest call on an instance did to its list: op is "load",
\* "unshift", "splice", "evict", "use", "miss" or "clear", at the index it
\* wrote, popped the name and usage count of the entry pop() took off
Did(op, at, popped) == [op |-> op, at |-> at, popped |-> popped]
Nothing == [pseudo |-> "", usageCount |-> 0]
PoppedOf(entry) == [pseudo |-> entry.pseudo, usageCount |-> entry.usageCount]

\* this._entries.findIndex((item) => item.pseudo === pseudo), counted from
\* 1, and 0 for -1
RECURSIVE FindIndexFrom(_, _, _)
FindIndexFrom(entries, pseudo, k) ==
    IF k > Len(entries) THEN 0
    ELSE IF entries[k].pseudo = pseudo THEN k
    ELSE FindIndexFrom(entries, pseudo, k + 1)

findIndex(entries, pseudo) == FindIndexFrom(entries, pseudo, 1)

\* _load(): the array the item parses to; [] for no item, for text that
\* does not parse and for JSON that is no array
_load(item) == IF item.kind = "array" THEN item.entries ELSE <<>>

\* _save(): setItem(storageKey, JSON.stringify(this._entries)); names,
\* expressions and numbers come back from JSON as they went in
_save(entries) == [kind |-> "array", entries |-> entries]

\* an addExpression that never takes an entry off the list
AddedToWithoutPop(entries, entry) ==
    IF findIndex(entries, entry.pseudo) > 0
    THEN [entries |-> [entries EXCEPT ![findIndex(entries, entry.pseudo)] = entry],
          last |-> Did("splice", findIndex(entries, entry.pseudo), Nothing)]
    ELSE [entries |-> <<entry>> \o entries, last |-> Did("unshift", 1, Nothing)]

\* an addExpression that puts every entry at the front
AddedToAlwaysUnshift(entries, entry) ==
    IF Len(entries) + 1 > maxEntries
    THEN [entries |-> <<entry>> \o SubSeq(entries, 1, Len(entries) - 1),
          last |-> Did("evict", 1, PoppedOf(entries[Len(entries)]))]
    ELSE [entries |-> <<entry>> \o entries, last |-> Did("unshift", 1, Nothing)]

\* the list after addExpression: splice(existingIndex, 1, entry), or
\* unshift(entry) and, past maxEntries, pop()
AddedTo(entries, entry) ==
    IF findIndex(entries, entry.pseudo) > 0
    THEN [entries |-> [entries EXCEPT ![findIndex(entries, entry.pseudo)] = entry],
          last |-> Did("splice", findIndex(entries, entry.pseudo), Nothing)]
    ELSE IF Len(entries) + 1 > maxEntries
    THEN [entries |-> <<entry>> \o SubSeq(entries, 1, Len(entries) - 1),
          last |-> Did("evict", 1, PoppedOf(entries[Len(entries)]))]
    ELSE [entries |-> <<entry>> \o entries, last |-> Did("unshift", 1, Nothing)]

\* the list after recordUsage: the first entry of that name, if there is
\* one, counts one more use and gets the timestamp
UsedIn(entries, pseudo, now) ==
    IF findIndex(entries, pseudo) = 0
    THEN [entries |-> entries, last |-> Did("miss", 0, Nothing)]
    ELSE [entries |-> [entries EXCEPT ![findIndex(entries, pseudo)] =
                           [@ EXCEPT !.usageCount = @ + 1, !.timestamp = now]],
          last |-> Did("use", findIndex(entries, pseudo), Nothing)]

\* the uses the entries of a list have counted together
RECURSIVE TotalUsage(_)
TotalUsage(entries) ==
    IF entries = <<>> THEN 0
    ELSE Head(entries).usageCount + TotalUsage(Tail(entries))

Instances == DOMAIN caches

With(i, cache) == [j \in Instances \cup {i} |-> IF j = i THEN cache ELSE caches[j]]

\* new ExpressionCache(): this._entries = this._load()
Construct(i) ==
    /\ i \notin Instances
    /\ caches' = With(i, [entries |-> _load(localStorage), last |-> Did("load", 0, Nothing)])
    /\ UNCHANGED <<schedVars, curveEval, lintVars, configVars, lexer, loader, timerVars,
                   shownMessage, localStorage>>

\* addExpression(pseudo, expression) at the time now
addExpression(i, pseudo, expression, now) ==
    /\ i \in Instances
    /\ caches' = With(i, AddedTo(caches[i].entries, Entry(pseudo, expression, 0, now)))
    /\ localStorage' = _save(caches'[i].entries)
    /\ UNCHANGED <<schedVars, curveEval, lintVars, configVars, lexer, loader, timerVars,
                   shownMessage>>

\* recordUsage(pseudo) at the time now; _save() only when the name is found
recordUsage(i, pseudo, now) ==
    /\ i \in Instances
    /\ TotalUsage(caches[i].entries) < MaxUsage
    /\ caches' = With(i, UsedIn(caches[i].entries, pseudo, now))
    /\ localStorage' = IF caches'[i].last.op = "use" THEN _save(caches'[i].entries)
                       ELSE localStorage
    /\ UNCHANGED <<schedVars, curveEval, lintVars, configVars, lexer, loader, timerVars,
                   shownMessage>>

\* clearCache()
clearCache(i) ==
    /\ i \in Instances
    /\ caches' = With(i, [entries |-> <<>>, last |-> Did("clear", 0, Nothing)])
    /\ localStorage' = _save(<<>>)
    /\ UNCHANGED <<schedVars, curveEval, lintVars, configVars, lexer, loader, timerVars,
                   shownMessage>>

\* the lists of entries with distinct names, at most n long
RECURSIVE DistinctLists(_)
DistinctLists(n) ==
    IF n = 0 THEN {<<>>}
    ELSE DistinctLists(n - 1)
         \cup UNION { { <<Entry(p, "[x]", 0, 1)>> \o l :
                          l \in {m \in DistinctLists(n - 1) :
                                    /\ Len(m) = n - 1
                                    /\ \A k \in 1..Len(m) : m[k].pseudo # p} } :
                      p \in Names }

\* what the page finds under the storage key: nothing, text that is no
\* JSON array, or the list an earlier session saved
StoredBefore ==
    {NoItem, [kind |-> "text", entries |-> <<>>]}
    \cup {_save(l) : l \in DistinctLists(maxEntries)}

CacheInit ==
    /\ SchedIdle /\ CurveIdle /\ LintIdle /\ LexIdle
    /\ LoadIdle /\ TimerIdle /\ MessageIdle
    /\ caches = <<>>
    /\ localStorage \in StoredBefore

\* one editor: this.cache = new ExpressionCache()
CacheNext ==
    \/ Construct(1)
    \/ \E pseudo \in Names, expression \in Expressions, now \in Timestamps :
           addExpression(1, pseudo, expression, now)
    \/ \E pseudo \in Names, now \in Timestamps : recordUsage(1, pseudo, now)
    \/ clearCache(1)

CacheSpec == CacheInit /\ [][CacheNext]_vars

\* C26: the cache never holds more than maxEntries entries; adding a new
\* name to a full cache takes exactly the entry at the tail off the list,
\* whatever its usage count and timestamp, and puts the new entry in front.
C26_BoundedWithTailEviction ==
    /\ [](\A i \in Instances : Len(caches[i].entries) <= maxEntries)
    /\ [][\A i \in Instances, pseudo \in Names, expression \in Expressions,
             now \in Timestamps :
              (/\ addExpression(i, pseudo, expression, now)
               /\ Len(caches[i].entries) = maxEntries
               /\ findIndex(caches[i].entries, pseudo) = 0)
              => /\ caches'[i].entries =
                        <<Entry(pseudo, expression, 0, now)>>
                        \o SubSeq(caches[i].entries, 1, maxEntries - 1)
                 /\ caches'[i].last.popped =
                        PoppedOf(caches[i].entries[maxEntries])]_vars

\* a full cache after an eviction: the entry taken off had been used, an
\* entry that stays has not
C26_Witness ==
    /\ 1 \in Instances
    /\ Len(caches[1].entries) = maxEntries
    /\ caches[1].last.op = "evict"
    /\ caches[1].last.popped.usageCount = MaxUsage
    /\ caches[1].entries[maxEntries].usageCount = 0
    /\ caches[1].entries[maxEntries].timestamp = 1
    /\ caches[1].entries[1].timestamp = 2

DistinctNames(entries) ==
    \A k, m \in 1..Len(entries) : entries[k].pseudo = entries[m].pseudo => k = m

\* C27: no two entries of a cache have the same name; adding a name the
\* cache holds puts the new entry, with usage count 0, where the entry of
\* that name was and changes no other entry and not the number of entries.
C27_NamesStayDistinct ==
    /\ [](\A i \in Instances : DistinctNames(caches[i].entries))
    /\ [][\A i \in Instances, pseudo \in Names, expression \in Expressions,
             now \in Timestamps :
              (/\ addExpression(i, pseudo, expression, now)
               /\ findIndex(caches[i].entries, pseudo) > 0)
              => caches'[i].entries =
                     [caches[i].entries EXCEPT ![findIndex(caches[i].entries, pseudo)] =
                          Entry(pseudo, expression, 0, now)]]_vars

\* the second of two entries was replaced where it was: another expression,
\* usage count 0, while the first entry keeps its use
C27_Witness ==
    /\ 1 \in Instances
    /\ Len(caches[1].entries) = 2
    /\ caches[1].last = Did("splice", 2, Nothing)
    /\ caches[1].entries[2].expression = "[y]"
    /\ caches[1].entries[2].usageCount = 0
    /\ caches[1].entries[1].usageCount = MaxUsage
    /\ localStorage = _save(caches[1].entries)

(***************************************************************************)
(* Two editor tabs: two ExpressionCache instances on one storage key.  Each *)
(* reads the storage once, in its constructor, and writes its whole list    *)
(* in _save.                                                                *)
(***************************************************************************)

\* the names saved in the tabs: no more than the cache has room for
TabNames == {NamePool[k] : k \in 1..maxEntries}
TabExpressions == {"[x]"}
Tabs == {1, 2}

TabsInit ==
    /\ SchedIdle /\ CurveIdle /\ LintIdle /\ LexIdle
    /\ LoadIdle /\ TimerIdle /\ MessageIdle
    /\ CacheIdle

TabsNext ==
    \/ \E i \in Tabs : Construct(i)
    \/ \E i \in Tabs, pseudo \in TabNames, expression \in TabExpressions, now \in Timestamps :
           addExpression(i, pseudo, expression, now)
    \/ \E i \in Tabs, pseudo \in TabNames, now \in Timestamps : recordUsage(i, pseudo, now)

TabsSpec == TabsInit /\ [][TabsNext]_vars

NamesIn(entries) == {entries[k].pseudo : k \in 1..Len(entries)}

\* C28: with two caches on one storage key, no clearCache and no more names
\* than the capacity, a name saved through either cache stays in the
\* storage: no step takes a name out of the stored list.
C28_NoLostUpdates ==
    [][NamesIn(localStorage.entries) \subseteq NamesIn(localStorage'.entries)]_vars

\* both tabs were opened on the empty storage; the first saved a, the second
\* then saved b, and the stored list holds b only
C28_Witness ==
    /\ DOMAIN caches = Tabs
    /\ NamesIn(caches[1].entries) = {"a"}
    /\ NamesIn(caches[2].entries) = {"b"}
    /\ caches[2].last.op = "unshift"
    /\ localStorage = _save(caches[2].entries)
    /\ "a" \notin NamesIn(localStorage.entries)

(***************************************************************************)
(* The depth counters of the tokenizer state and indent().                  *)
(***************************************************************************)

\* the latest call of token read a closing bracket
ReadClosing == lexer.calls > 0 /\ lexer.line[lexer.start + 1] = "]"

\* C29: bracketDepth is never negative; a call of token takes 2 off it only
\* at "]]" with inDoubleExpr set, 1 only at "]" with inToken set, and a
\* call takes nothing else off it.
C29_BracketDepthNonNegative ==
    /\ lexer.state.bracketDepth >= 0
    /\ lexer.calls > 0 =>
           /\ lexer.state.bracketDepth >= lexer.before.bracketDepth - 2
           /\ lexer.state.bracketDepth = lexer.before.bracketDepth - 2 =>
                  /\ lexer.before.inDoubleExpr
                  /\ lexer.pos = lexer.start + 2
                  /\ ReadClosing /\ lexer.line[lexer.start + 2] = "]"
           /\ lexer.state.bracketDepth = lexer.before.bracketDepth - 1 =>
                  /\ lexer.before.inToken
                  /\ lexer.pos = lexer.start + 1
                  /\ ReadClosing

\* a "]" read with no "[" open and the depth at 0: the depth stays 0, after
\* closing brackets earlier on the line took the depth down to 0
C29_Witness ==
    /\ ReadClosing
    /\ ~lexer.before.inToken /\ ~lexer.before.inDoubleExpr
    /\ lexer.before.bracketDepth = 0
    /\ lexer.state.bracketDepth = 0
    /\ lexer.start > 0
    /\ lexer.line[1] = "["

\* config.indentUnit, 0 for one that is not set
IndentUnits == {0, 2, 4}

\* indent(state, textAfter) with config.indentUnit = indentUnit
indent(state, indentUnit) ==
    (state.bracketDepth + state.parenDepth)
        * (IF indentUnit = 0 THEN 2 ELSE indentUnit)

\* C30: parenDepth and braceDepth are never negative, and indent() returns
\* no negative indentation.
C30_DepthsNonNegative ==
    /\ lexer.state.parenDepth >= 0
    /\ lexer.state.braceDepth >= 0
    /\ \A indentUnit \in IndentUnits : indent(lexer.state, indentUnit) >= 0

\* a ")" read with no "(" open: parenDepth is -1 after a "}" left braceDepth
\* at -1, and indent() returns a negative indentation
C30_Witness ==
    /\ lexer.calls > 0
    /\ lexer.line[lexer.start + 1] = ")"
    /\ lexer.before.parenDepth = 0
    /\ lexer.state.parenDepth = -1
    /\ lexer.state.braceDepth = -1
    /\ lexer.state.bracketDepth = 0
    /\ \A indentUnit \in IndentUnits : indent(lexer.state, indentUnit) < 0


=============================================================================
